---- MODULE Spec2Model ----
(***************************************************************************)
(* Model of src/txdb.cpp: the coin set store (CCoinsViewDB) and the chain  *)
(* metadata store (CBlockTreeDB) on top of an ordered byte-keyed           *)
(* key-value engine.                                                       *)
(*                                                                         *)
(* A store is a function from keys to values.  A key is the sequence of    *)
(* its serialized bytes; a fixed-width hash (uint256, uint160) is          *)
(* abstracted to one symbol, every other field keeps its byte layout.      *)
(***************************************************************************)
EXTENDS Integers, Sequences, FiniteSets, TLC

VARIABLES
    coinsdb,               \* CCoinsViewDB::db, the persisted chainstate store
    mapCoins,              \* caller's coin delta           (CCoinsMap)
    mapSproutAnchors,      \* caller's Sprout anchor delta  (CAnchorsSproutMap)
    mapSaplingAnchors,     \* caller's Sapling anchor delta (CAnchorsSaplingMap)
    mapSproutNullifiers,   \* caller's Sprout nullifier delta  (CNullifiersMap)
    mapSaplingNullifiers,  \* caller's Sapling nullifier delta (CNullifiersMap)
    blocktree,             \* CBlockTreeDB, the persisted blocks/index store
    mapBlockIndex,         \* global block index map: hash -> node or NULL
    CBlockIndex,           \* the CBlockIndex objects: node -> its fields
    chainActive,           \* nodes of the active chain
    op,                    \* name of the operation that ran last
    args,                  \* its arguments
    pre,                   \* the state it was called in
    ret,                   \* its return value
    out,                   \* what it left in its output parameter
    threw,                 \* whether it left by an exception
    batch,                 \* the CDBBatch it handed to the engine
    lastBest,              \* history: last non-null best values committed
    lastUpd                \* history: last committed index update per key

vars == <<coinsdb, mapCoins, mapSproutAnchors, mapSaplingAnchors,
          mapSproutNullifiers, mapSaplingNullifiers, blocktree,
          mapBlockIndex, CBlockIndex, chainActive, op, args, pre, ret, out,
          threw, batch, lastBest, lastUpd>>

coinVars == <<coinsdb, mapCoins, mapSproutAnchors, mapSaplingAnchors,
              mapSproutNullifiers, mapSaplingNullifiers, lastBest>>

treeVars == <<blocktree, mapBlockIndex, CBlockIndex, chainActive, lastUpd>>

(***************************************************************************)
(* Key tags (ASCII codes of the characters in the source).                 *)
(***************************************************************************)
DB_SPROUT_ANCHOR == 65
DB_SAPLING_ANCHOR == 90
DB_NULLIFIER == 115
DB_SAPLING_NULLIFIER == 83
DB_COINS == 99
DB_BLOCK_FILES == 102
\* Faulty variant: transaction positions under the tag of the block files.
Mut_TxIndexTagOfBlockFiles == DB_BLOCK_FILES

DB_TXINDEX == 116
DB_ADDRESSINDEX == 100
DB_ADDRESSUNSPENTINDEX == 117
DB_TIMESTAMPINDEX == 83
DB_BLOCKHASHINDEX == 122
DB_SPENTINDEX == 112
DB_BLOCK_INDEX == 98
DB_BEST_BLOCK == 66
DB_BEST_SPROUT_ANCHOR == 97
DB_BEST_SAPLING_ANCHOR == 122
DB_FLAG == 70
DB_REINDEX_FLAG == 82
DB_LAST_BLOCK == 108

(***************************************************************************)
(* Values of the model.                                                    *)
(***************************************************************************)
NullHash == 0
SproutEmptyRoot == 1
SaplingEmptyRoot == 2
SproutEmptyTree == "SproutMerkleTree()"
SaplingEmptyTree == "SaplingMerkleTree()"
NullOut == -1

\* Bounds of the model.
MaxDelta == 2

TxIds == {1, 2}
CoinValues == {<<>>, <<5>>, <<NullOut, 7>>}
CoinFlags == SUBSET {"DIRTY", "FRESH"}
AnchorRoots == {SproutEmptyRoot, SaplingEmptyRoot, 3}
AnchorFlags == {{}, {"DIRTY"}}
SproutTrees == {"st1"}
SaplingTrees == {"zt1"}
Nullifiers == {1}
BestHashes == {NullHash, 1, 2}

Min(a, b) == IF a < b THEN a ELSE b

EmptyMap == [x \in {} |-> x]

(***************************************************************************)
(* The key-value engine: point reads, batches, ordered iteration.          *)
(***************************************************************************)
LexLess(a, b) ==
    \/ Len(a) < Len(b) /\ \A i \in 1..Len(a) : a[i] = b[i]
    \/ \E i \in 1..Min(Len(a), Len(b)) :
          a[i] < b[i] /\ \A j \in 1..(i - 1) : a[j] = b[j]

RECURSIVE SortKeys(_)
SortKeys(S) ==
    IF S = {} THEN <<>>
    ELSE LET m == CHOOSE x \in S : \A y \in S \ {x} : LexLess(x, y)
         IN  <<m>> \o SortKeys(S \ {m})

RECURSIVE SortInts(_)
SortInts(S) ==
    IF S = {} THEN <<>>
    ELSE LET m == CHOOSE x \in S : \A y \in S : x <= y
         IN  <<m>> \o SortInts(S \ {m})

Exists(db, key) == key \in DOMAIN db

Read(db, key, dflt) ==
    IF key \in DOMAIN db THEN [found |-> TRUE, value |-> db[key]]
    ELSE [found |-> FALSE, value |-> dflt]

WriteOp(key, value) == [kind |-> "Write", key |-> key, value |-> value]
EraseOp(key) == [kind |-> "Erase", key |-> key, value |-> 0]

ApplyOp(db, o) ==
    IF o.kind = "Write"
    THEN [k \in DOMAIN db \cup {o.key} |-> IF k = o.key THEN o.value ELSE db[k]]
    ELSE [k \in DOMAIN db \ {o.key} |-> db[k]]

RECURSIVE ApplyBatch(_, _)
ApplyBatch(db, b) ==
    IF b = <<>> THEN db ELSE ApplyBatch(ApplyOp(db, Head(b)), Tail(b))

\* The engine's atomic commit: all of the batch, or nothing.
WriteBatch(db, b, ok) ==
    [db |-> IF ok THEN ApplyBatch(db, b) ELSE db, ret |-> ok]

\* Faulty variant: only entries that reached the batch are erased.
Mut_MapEraseDirtyOnly(m, k) ==
    IF "DIRTY" \in m[k].flags THEN [x \in DOMAIN m \ {k} |-> m[x]] ELSE m

MapErase(m, k) == [x \in DOMAIN m \ {k} |-> m[x]]

MapPut(m, k, v) == [x \in DOMAIN m \cup {k} |-> IF x = k THEN v ELSE m[x]]

(***************************************************************************)
(* CCoinsViewDB point reads.                                               *)
(***************************************************************************)
GetSproutAnchorAt(db, rt) ==
    IF rt = SproutEmptyRoot
    THEN [ret |-> TRUE, tree |-> SproutEmptyTree, read |-> FALSE]
    ELSE LET r == Read(db, <<DB_SPROUT_ANCHOR, rt>>, SproutEmptyTree)
         IN  [ret |-> r.found, tree |-> r.value, read |-> TRUE]

GetSaplingAnchorAt(db, rt) ==
    IF rt = SaplingEmptyRoot
    THEN [ret |-> TRUE, tree |-> SaplingEmptyTree, read |-> FALSE]
    ELSE LET r == Read(db, <<DB_SAPLING_ANCHOR, rt>>, SaplingEmptyTree)
         IN  [ret |-> r.found, tree |-> r.value, read |-> TRUE]

\* Faulty variant: both pools looked up under the Sprout tag.
Mut_GetNullifierOneTag(db, nf, type) ==
    IF type = "SPROUT"
    THEN [threw |-> FALSE, ret |-> Read(db, <<DB_NULLIFIER, nf>>, FALSE).found]
    ELSE IF type = "SAPLING"
    THEN [threw |-> FALSE,
          ret |-> Read(db, <<DB_NULLIFIER, nf>>, FALSE).found]
    ELSE [threw |-> TRUE, ret |-> FALSE]

GetNullifier(db, nf, type) ==
    IF type = "SPROUT"
    THEN [threw |-> FALSE, ret |-> Read(db, <<DB_NULLIFIER, nf>>, FALSE).found]
    ELSE IF type = "SAPLING"
    THEN [threw |-> FALSE,
          ret |-> Read(db, <<DB_SAPLING_NULLIFIER, nf>>, FALSE).found]
    ELSE [threw |-> TRUE, ret |-> FALSE]

\* A serialized CCoins: the number of outputs, then the outputs.  A value
\* that ends before its last output cannot be read back.
SerCoins(coins) == <<Len(coins)>> \o coins

UnserCoins(slValue) ==
    IF Len(slValue) < 1 THEN [ok |-> FALSE]
    ELSE IF Len(slValue) < 1 + slValue[1] THEN [ok |-> FALSE]
    ELSE [ok |-> TRUE, coins |-> SubSeq(slValue, 2, 1 + slValue[1])]

GetCoins(db, txid) ==
    LET r == Read(db, <<DB_COINS, txid>>, SerCoins(<<>>))
        u == UnserCoins(r.value)
    IN  [ret |-> r.found /\ u.ok,
         coins |-> IF r.found /\ u.ok THEN u.coins ELSE <<>>]

HaveCoins(db, txid) == Exists(db, <<DB_COINS, txid>>)

GetBestBlock(db) ==
    LET r == Read(db, <<DB_BEST_BLOCK>>, NullHash)
    IN  IF ~r.found THEN NullHash ELSE r.value

\* Faulty variant: an unset anchor slot reads as the zero hash.
Mut_GetBestAnchorZeroDefault(db, type) ==
    IF type = "SPROUT"
    THEN LET r == Read(db, <<DB_BEST_SPROUT_ANCHOR>>, NullHash)
         IN  [threw |-> FALSE,
              hash |-> IF ~r.found THEN NullHash ELSE r.value]
    ELSE IF type = "SAPLING"
    THEN LET r == Read(db, <<DB_BEST_SAPLING_ANCHOR>>, NullHash)
         IN  [threw |-> FALSE,
              hash |-> IF ~r.found THEN NullHash ELSE r.value]
    ELSE [threw |-> TRUE, hash |-> NullHash]

GetBestAnchor(db, type) ==
    IF type = "SPROUT"
    THEN LET r == Read(db, <<DB_BEST_SPROUT_ANCHOR>>, NullHash)
         IN  [threw |-> FALSE,
              hash |-> IF ~r.found THEN SproutEmptyRoot ELSE r.value]
    ELSE IF type = "SAPLING"
    THEN LET r == Read(db, <<DB_BEST_SAPLING_ANCHOR>>, NullHash)
         IN  [threw |-> FALSE,
              hash |-> IF ~r.found THEN SaplingEmptyRoot ELSE r.value]
    ELSE [threw |-> TRUE, hash |-> NullHash]

(***************************************************************************)
(* CCoinsViewDB::BatchWrite and its helpers.  The maps are hash maps; the  *)
(* traversal visits every key once, here in ascending order.               *)
(***************************************************************************)
IsNull(hash) == hash = NullHash

IsPruned(coins) == \A i \in 1..Len(coins) : coins[i] = NullOut

\* Faulty variant: the test of `entered' is inverted.
Mut_NullifierStepInverted(b, dbChar, it, e) ==
    IF "DIRTY" \in e.flags
    THEN IF e.entered
         THEN Append(b, EraseOp(<<dbChar, it>>))
         ELSE Append(b, WriteOp(<<dbChar, it>>, TRUE))
    ELSE b

NullifierStep(b, dbChar, it, e) ==
    IF "DIRTY" \in e.flags
    THEN IF ~e.entered
         THEN Append(b, EraseOp(<<dbChar, it>>))
         ELSE Append(b, WriteOp(<<dbChar, it>>, TRUE))
    ELSE b

RECURSIVE NullifierLoop(_, _, _, _)
NullifierLoop(b, mapToUse, dbChar, keys) ==
    IF keys = <<>> THEN [batch |-> b, map |-> mapToUse]
    ELSE LET it == Head(keys)
         IN  NullifierLoop(NullifierStep(b, dbChar, it, mapToUse[it]),
                           MapErase(mapToUse, it), dbChar, Tail(keys))

BatchWriteNullifiers(b, mapToUse, dbChar) ==
    NullifierLoop(b, mapToUse, dbChar, SortInts(DOMAIN mapToUse))

\* Faulty variant: the empty root is written like any other root.
Mut_AnchorStepNoEmptyCheck(b, dbChar, emptyRoot, it, e) ==
    IF "DIRTY" \in e.flags
    THEN IF ~e.entered
         THEN Append(b, EraseOp(<<dbChar, it>>))
         ELSE Append(b, WriteOp(<<dbChar, it>>, e.tree))
    ELSE b

AnchorStep(b, dbChar, emptyRoot, it, e) ==
    IF "DIRTY" \in e.flags
    THEN IF ~e.entered
         THEN Append(b, EraseOp(<<dbChar, it>>))
         ELSE IF it # emptyRoot
              THEN Append(b, WriteOp(<<dbChar, it>>, e.tree))
              ELSE b
    ELSE b

RECURSIVE AnchorLoop(_, _, _, _, _)
AnchorLoop(b, mapToUse, dbChar, emptyRoot, keys) ==
    IF keys = <<>> THEN [batch |-> b, map |-> mapToUse]
    ELSE LET it == Head(keys)
         IN  AnchorLoop(AnchorStep(b, dbChar, emptyRoot, it, mapToUse[it]),
                        MapErase(mapToUse, it), dbChar, emptyRoot, Tail(keys))

BatchWriteAnchors(b, mapToUse, dbChar, emptyRoot) ==
    AnchorLoop(b, mapToUse, dbChar, emptyRoot, SortInts(DOMAIN mapToUse))

\* Faulty variant: a pruned record is written instead of erased.
Mut_CoinsStepNoPrune(b, it, e) ==
    IF "DIRTY" \in e.flags
    THEN Append(b, WriteOp(<<DB_COINS, it>>, SerCoins(e.coins)))
    ELSE b

CoinsStep(b, it, e) ==
    IF "DIRTY" \in e.flags
    THEN IF IsPruned(e.coins)
         THEN Append(b, EraseOp(<<DB_COINS, it>>))
         ELSE Append(b, WriteOp(<<DB_COINS, it>>, SerCoins(e.coins)))
    ELSE b

RECURSIVE CoinsLoop(_, _, _, _, _)
CoinsLoop(b, map, keys, count, changed) ==
    IF keys = <<>>
    THEN [batch |-> b, map |-> map, count |-> count, changed |-> changed]
    ELSE LET it == Head(keys)
         IN  CoinsLoop(CoinsStep(b, it, map[it]), MapErase(map, it),
                       Tail(keys), count + 1,
                       IF "DIRTY" \in map[it].flags THEN changed + 1
                       ELSE changed)

\* Faulty variant: the slots are written without the IsNull tests.
Mut_BestSlotsUnconditional(b, hashBlock, hashSproutAnchor, hashSaplingAnchor) ==
    b \o << WriteOp(<<DB_BEST_BLOCK>>, hashBlock),
            WriteOp(<<DB_BEST_SPROUT_ANCHOR>>, hashSproutAnchor),
            WriteOp(<<DB_BEST_SAPLING_ANCHOR>>, hashSaplingAnchor) >>

BestSlots(b, hashBlock, hashSproutAnchor, hashSaplingAnchor) ==
    LET b1 == IF ~IsNull(hashBlock)
              THEN Append(b, WriteOp(<<DB_BEST_BLOCK>>, hashBlock)) ELSE b
        b2 == IF ~IsNull(hashSproutAnchor)
              THEN Append(b1, WriteOp(<<DB_BEST_SPROUT_ANCHOR>>,
                                      hashSproutAnchor))
              ELSE b1
    IN  IF ~IsNull(hashSaplingAnchor)
        THEN Append(b2, WriteOp(<<DB_BEST_SAPLING_ANCHOR>>, hashSaplingAnchor))
        ELSE b2

\* Faulty variant: the entries are written one by one, so that a failure
\* leaves the first of them in the store.
Mut_CommitPerEntry(db, b, ok) ==
    IF ok THEN WriteBatch(db, b, TRUE)
    ELSE [db |-> ApplyBatch(db, SubSeq(b, 1, Min(1, Len(b)))), ret |-> FALSE]

Commit(db, b, ok) == WriteBatch(db, b, ok)

\* Faulty variant: a failed commit is tried once more, the first result
\* is returned.
Mut_BatchWriteCallRetries(db, mC, hashBlock, hashSproutAnchor, hashSaplingAnchor, mSA, mZA, mSN, mZN, ok) ==
    LET c  == CoinsLoop(<<>>, mC, SortInts(DOMAIN mC), 0, 0)
        sa == BatchWriteAnchors(c.batch, mSA, DB_SPROUT_ANCHOR, SproutEmptyRoot)
        za == BatchWriteAnchors(sa.batch, mZA, DB_SAPLING_ANCHOR,
                                SaplingEmptyRoot)
        sn == BatchWriteNullifiers(za.batch, mSN, DB_NULLIFIER)
        zn == BatchWriteNullifiers(sn.batch, mZN, DB_SAPLING_NULLIFIER)
        b  == BestSlots(zn.batch, hashBlock, hashSproutAnchor,
                        hashSaplingAnchor)
        w  == Commit(db, b, ok)
        w2 == IF w.ret THEN w ELSE Commit(db, b, TRUE)
    IN  [db |-> w2.db, ret |-> w.ret, commit |-> w.ret, batch |-> b,
         mapCoins |-> c.map, mapSproutAnchors |-> sa.map,
         mapSaplingAnchors |-> za.map, mapSproutNullifiers |-> sn.map,
         mapSaplingNullifiers |-> zn.map,
         count |-> c.count, changed |-> c.changed]

\* The whole call: the batch it builds, the drained maps, the commit.
BatchWriteCall(db, mC, hashBlock, hashSproutAnchor, hashSaplingAnchor, mSA, mZA, mSN, mZN, ok) ==
    LET c  == CoinsLoop(<<>>, mC, SortInts(DOMAIN mC), 0, 0)
        sa == BatchWriteAnchors(c.batch, mSA, DB_SPROUT_ANCHOR, SproutEmptyRoot)
        za == BatchWriteAnchors(sa.batch, mZA, DB_SAPLING_ANCHOR,
                                SaplingEmptyRoot)
        sn == BatchWriteNullifiers(za.batch, mSN, DB_NULLIFIER)
        zn == BatchWriteNullifiers(sn.batch, mZN, DB_SAPLING_NULLIFIER)
        b  == BestSlots(zn.batch, hashBlock, hashSproutAnchor,
                        hashSaplingAnchor)
        w  == Commit(db, b, ok)
    IN  [db |-> w.db, ret |-> w.ret, commit |-> w.ret, batch |-> b,
         mapCoins |-> c.map, mapSproutAnchors |-> sa.map,
         mapSaplingAnchors |-> za.map, mapSproutNullifiers |-> sn.map,
         mapSaplingNullifiers |-> zn.map,
         count |-> c.count, changed |-> c.changed]

Snapshot ==
    [coinsdb |-> coinsdb, mapCoins |-> mapCoins,
     mapSproutAnchors |-> mapSproutAnchors,
     mapSaplingAnchors |-> mapSaplingAnchors,
     mapSproutNullifiers |-> mapSproutNullifiers,
     mapSaplingNullifiers |-> mapSaplingNullifiers]

NewBest(old, hash, ok) == IF ok /\ ~IsNull(hash) THEN hash ELSE old

BatchWrite(hashBlock, hashSproutAnchor, hashSaplingAnchor, ok) ==
    LET r == BatchWriteCall(coinsdb, mapCoins, hashBlock, hashSproutAnchor,
                            hashSaplingAnchor, mapSproutAnchors,
                            mapSaplingAnchors, mapSproutNullifiers,
                            mapSaplingNullifiers, ok)
    IN  /\ coinsdb' = r.db
        /\ mapCoins' = r.mapCoins
        /\ mapSproutAnchors' = r.mapSproutAnchors
        /\ mapSaplingAnchors' = r.mapSaplingAnchors
        /\ mapSproutNullifiers' = r.mapSproutNullifiers
        /\ mapSaplingNullifiers' = r.mapSaplingNullifiers
        /\ op' = "BatchWrite"
        /\ args' = [hashBlock |-> hashBlock,
                    hashSproutAnchor |-> hashSproutAnchor,
                    hashSaplingAnchor |-> hashSaplingAnchor]
        /\ pre' = Snapshot
        /\ ret' = r.ret
        /\ out' = [count |-> r.count, changed |-> r.changed,
                   commit |-> r.commit]
        /\ threw' = FALSE
        /\ batch' = r.batch
        /\ lastBest' = [block |-> NewBest(lastBest.block, hashBlock, r.ret),
                        sprout |-> NewBest(lastBest.sprout, hashSproutAnchor,
                                           r.ret),
                        sapling |-> NewBest(lastBest.sapling,
                                            hashSaplingAnchor, r.ret)]
        /\ UNCHANGED <<treeVars>>

(***************************************************************************)
(* The validation layer: it owns the delta maps until the flush.           *)
(***************************************************************************)
DeltaSize ==
    Cardinality(DOMAIN mapCoins) + Cardinality(DOMAIN mapSproutAnchors)
    + Cardinality(DOMAIN mapSaplingAnchors)
    + Cardinality(DOMAIN mapSproutNullifiers)
    + Cardinality(DOMAIN mapSaplingNullifiers)

NonNull(h) == IF IsNull(h) THEN 0 ELSE 1

\* The caller adds entries until it flushes, up to MaxDelta of them.
CallerStep ==
    /\ op # "BatchWrite"
    /\ DeltaSize < MaxDelta
    /\ op' = "cache"
    /\ args' = <<>>
    /\ pre' = <<>>
    /\ ret' = FALSE
    /\ out' = <<>>
    /\ threw' = FALSE
    /\ batch' = <<>>
    /\ UNCHANGED <<coinsdb, lastBest, treeVars>>

CacheCoins(txid, coins, flags) ==
    /\ txid \notin DOMAIN mapCoins
    /\ mapCoins' = MapPut(mapCoins, txid, [coins |-> coins, flags |-> flags])
    /\ UNCHANGED <<mapSproutAnchors, mapSaplingAnchors, mapSproutNullifiers,
                   mapSaplingNullifiers>>
    /\ CallerStep

CacheSproutAnchor(rt, entered, tree, flags) ==
    /\ rt \notin DOMAIN mapSproutAnchors
    /\ mapSproutAnchors' = MapPut(mapSproutAnchors, rt,
                              [entered |-> entered, tree |-> tree,
                               flags |-> flags])
    /\ UNCHANGED <<mapCoins, mapSaplingAnchors, mapSproutNullifiers,
                   mapSaplingNullifiers>>
    /\ CallerStep

CacheSaplingAnchor(rt, entered, tree, flags) ==
    /\ rt \notin DOMAIN mapSaplingAnchors
    /\ mapSaplingAnchors' = MapPut(mapSaplingAnchors, rt,
                               [entered |-> entered, tree |-> tree,
                                flags |-> flags])
    /\ UNCHANGED <<mapCoins, mapSproutAnchors, mapSproutNullifiers,
                   mapSaplingNullifiers>>
    /\ CallerStep

CacheSproutNullifier(nf, entered, flags) ==
    /\ nf \notin DOMAIN mapSproutNullifiers
    /\ mapSproutNullifiers' = MapPut(mapSproutNullifiers, nf,
                                 [entered |-> entered, flags |-> flags])
    /\ UNCHANGED <<mapCoins, mapSproutAnchors, mapSaplingAnchors,
                   mapSaplingNullifiers>>
    /\ CallerStep

CacheSaplingNullifier(nf, entered, flags) ==
    /\ nf \notin DOMAIN mapSaplingNullifiers
    /\ mapSaplingNullifiers' = MapPut(mapSaplingNullifiers, nf,
                                  [entered |-> entered, flags |-> flags])
    /\ UNCHANGED <<mapCoins, mapSproutAnchors, mapSaplingAnchors,
                   mapSproutNullifiers>>
    /\ CallerStep

(***************************************************************************)
(* Initial states.  The constructors open whatever an earlier run left in  *)
(* the data directory: nothing, or a populated store.                      *)
(***************************************************************************)
EmptyDB == EmptyMap

PopulatedCoinsDB ==
    ApplyBatch(EmptyDB,
        << WriteOp(<<DB_COINS, 1>>, SerCoins(<<5>>)),
           WriteOp(<<DB_COINS, 2>>, SerCoins(<<NullOut, 7>>)),
           WriteOp(<<DB_SPROUT_ANCHOR, 3>>, "st0"),
           WriteOp(<<DB_SPROUT_ANCHOR, SaplingEmptyRoot>>, "st0"),
           WriteOp(<<DB_SAPLING_ANCHOR, 3>>, "zt0"),
           WriteOp(<<DB_SAPLING_ANCHOR, SproutEmptyRoot>>, "zt0"),
           WriteOp(<<DB_NULLIFIER, 1>>, TRUE),
           WriteOp(<<DB_SAPLING_NULLIFIER, 1>>, TRUE),
           WriteOp(<<DB_BEST_BLOCK>>, 1),
           WriteOp(<<DB_BEST_SPROUT_ANCHOR>>, 1),
           WriteOp(<<DB_BEST_SAPLING_ANCHOR>>, 1) >>)

BestOf(db) ==
    [block   |-> Read(db, <<DB_BEST_BLOCK>>, NullHash).value,
     sprout  |-> Read(db, <<DB_BEST_SPROUT_ANCHOR>>, NullHash).value,
     sapling |-> Read(db, <<DB_BEST_SAPLING_ANCHOR>>, NullHash).value]

InitCommon ==
    /\ mapCoins = EmptyMap
    /\ mapSproutAnchors = EmptyMap
    /\ mapSaplingAnchors = EmptyMap
    /\ mapSproutNullifiers = EmptyMap
    /\ mapSaplingNullifiers = EmptyMap
    /\ lastBest = BestOf(coinsdb)
    /\ blocktree = EmptyDB
    /\ mapBlockIndex = EmptyMap
    /\ CBlockIndex = EmptyMap
    /\ chainActive = {}
    /\ lastUpd = EmptyMap
    /\ op = "init"
    /\ args = <<>>
    /\ pre = <<>>
    /\ ret = FALSE
    /\ out = <<>>
    /\ threw = FALSE
    /\ batch = <<>>

InitFlush ==
    /\ coinsdb \in {EmptyDB, PopulatedCoinsDB}
    /\ InitCommon

\* One flush of a delta of at most MaxDelta changes.
NextFlush ==
    \/ \E txid \in TxIds, coins \in CoinValues, flags \in CoinFlags :
          CacheCoins(txid, coins, flags)
    \/ \E rt \in AnchorRoots, entered \in BOOLEAN, tree \in SproutTrees,
          flags \in AnchorFlags :
          CacheSproutAnchor(rt, entered, tree, flags)
    \/ \E rt \in AnchorRoots, entered \in BOOLEAN, tree \in SaplingTrees,
          flags \in AnchorFlags :
          CacheSaplingAnchor(rt, entered, tree, flags)
    \/ \E nf \in Nullifiers, entered \in BOOLEAN, flags \in AnchorFlags :
          CacheSproutNullifier(nf, entered, flags)
    \/ \E nf \in Nullifiers, entered \in BOOLEAN, flags \in AnchorFlags :
          CacheSaplingNullifier(nf, entered, flags)
    \/ /\ op # "BatchWrite"
       /\ \E hashBlock \in BestHashes, hashSproutAnchor \in BestHashes,
             hashSaplingAnchor \in BestHashes, ok \in BOOLEAN :
            /\ DeltaSize + NonNull(hashBlock) + NonNull(hashSproutAnchor)
                 + NonNull(hashSaplingAnchor) <= MaxDelta
            /\ BatchWrite(hashBlock, hashSproutAnchor, hashSaplingAnchor, ok)

SpecFlush == InitFlush /\ [][NextFlush]_vars

InitBest ==
    /\ coinsdb = EmptyDB
    /\ InitCommon

\* Any sequence of flushes that carry only best-slot values.
NextBest ==
    \E hashBlock \in BestHashes, hashSproutAnchor \in BestHashes,
       hashSaplingAnchor \in BestHashes, ok \in BOOLEAN :
        BatchWrite(hashBlock, hashSproutAnchor, hashSaplingAnchor, ok)

SpecBest == InitBest /\ [][NextBest]_vars

(***************************************************************************)
(* Properties of the flush.                                                *)
(***************************************************************************)
Reflected(db, o) ==
    IF o.kind = "Write"
    THEN Read(db, o.key, 0).found /\ db[o.key] = o.value
    ELSE ~Exists(db, o.key)

BatchKeys(b) == {b[i].key : i \in 1..Len(b)}

SameAt(db1, db2, key) ==
    /\ Exists(db1, key) = Exists(db2, key)
    /\ Exists(db1, key) => db1[key] = db2[key]

PreDeltaSize ==
    Cardinality(DOMAIN pre.mapCoins) + Cardinality(DOMAIN pre.mapSproutAnchors)
    + Cardinality(DOMAIN pre.mapSaplingAnchors)
    + Cardinality(DOMAIN pre.mapSproutNullifiers)
    + Cardinality(DOMAIN pre.mapSaplingNullifiers)

\* C1: after BatchWrite the store either shows every put and delete of the
\* call's batch and no other change (the commit succeeded), or is the store
\* the call started from (the commit failed); nothing in between.
C1_FlushAtomicity ==
    op = "BatchWrite" =>
        \/ /\ ret
           /\ \A i \in 1..Len(batch) : Reflected(coinsdb, batch[i])
           /\ \A key \in (DOMAIN coinsdb \cup DOMAIN pre.coinsdb)
                           \ BatchKeys(batch) :
                 SameAt(coinsdb, pre.coinsdb, key)
        \/ /\ ~ret
           /\ coinsdb = pre.coinsdb

C1_Witness ==
    /\ op = "BatchWrite"
    /\ ~ret
    /\ Len(batch) >= 2
    /\ ApplyOp(pre.coinsdb, batch[1]) # pre.coinsdb
    /\ coinsdb = pre.coinsdb

\* C2: when BatchWrite has returned, with success or with failure, all five
\* delta maps are empty, whatever their entries were.
C2_DeltaConsumed ==
    op = "BatchWrite" =>
        /\ mapCoins = EmptyMap
        /\ mapSproutAnchors = EmptyMap
        /\ mapSaplingAnchors = EmptyMap
        /\ mapSproutNullifiers = EmptyMap
        /\ mapSaplingNullifiers = EmptyMap

C2_Witness ==
    /\ op = "BatchWrite"
    /\ ~ret
    /\ batch = <<>>
    /\ \E txid \in DOMAIN pre.mapCoins :
          "DIRTY" \notin pre.mapCoins[txid].flags
    /\ SproutEmptyRoot \in DOMAIN pre.mapSproutAnchors
    /\ "DIRTY" \in pre.mapSproutAnchors[SproutEmptyRoot].flags
    /\ DeltaSize = 0

\* C3: after a successful BatchWrite a DIRTY pruned coin entry is gone from
\* the store, a DIRTY unpruned one is read back with the entry's value, and
\* a txid without a DIRTY entry reads as it did before the flush.
C3_CoinFlushEffect ==
    (op = "BatchWrite" /\ ret) =>
        \A txid \in TxIds :
            IF txid \in DOMAIN pre.mapCoins
               /\ "DIRTY" \in pre.mapCoins[txid].flags
            THEN IF IsPruned(pre.mapCoins[txid].coins)
                 THEN ~HaveCoins(coinsdb, txid) /\ ~GetCoins(coinsdb, txid).ret
                 ELSE /\ HaveCoins(coinsdb, txid)
                      /\ GetCoins(coinsdb, txid)
                           = [ret |-> TRUE, coins |-> pre.mapCoins[txid].coins]
            ELSE /\ GetCoins(coinsdb, txid) = GetCoins(pre.coinsdb, txid)
                 /\ HaveCoins(coinsdb, txid) = HaveCoins(pre.coinsdb, txid)

C3_Witness ==
    /\ op = "BatchWrite"
    /\ ret
    /\ \E t1 \in DOMAIN pre.mapCoins, t2 \in DOMAIN pre.mapCoins :
          /\ "DIRTY" \in pre.mapCoins[t1].flags
          /\ IsPruned(pre.mapCoins[t1].coins)
          /\ HaveCoins(pre.coinsdb, t1)
          /\ ~HaveCoins(coinsdb, t1)
          /\ "DIRTY" \in pre.mapCoins[t2].flags
          /\ ~IsPruned(pre.mapCoins[t2].coins)
          /\ GetCoins(pre.coinsdb, t2).coins # pre.mapCoins[t2].coins
          /\ GetCoins(coinsdb, t2).coins = pre.mapCoins[t2].coins

AnchorEffect(m, dbChar, emptyRoot, db0, db1) ==
    \A rt \in DOMAIN m :
        IF "DIRTY" \in m[rt].flags
        THEN IF ~m[rt].entered
             THEN ~Exists(db1, <<dbChar, rt>>)
             ELSE rt # emptyRoot =>
                    Read(db1, <<dbChar, rt>>, "")
                      = [found |-> TRUE, value |-> m[rt].tree]
        ELSE SameAt(db1, db0, <<dbChar, rt>>)

NullifierEffect(m, dbChar, type, db0, db1) ==
    \A nf \in DOMAIN m :
        IF "DIRTY" \in m[nf].flags
        THEN IF ~m[nf].entered
             THEN ~Exists(db1, <<dbChar, nf>>) /\ ~GetNullifier(db1, nf, type).ret
             ELSE /\ GetNullifier(db1, nf, type).ret
                  /\ db1[<<dbChar, nf>>] = TRUE
        ELSE SameAt(db1, db0, <<dbChar, nf>>)

\* C4: after a successful flush, a DIRTY anchor or nullifier entry with
\* entered=false leaves its key absent, a DIRTY entry with entered=true (key
\* not the empty root) leaves it present with the entry's value, and an entry
\* without DIRTY leaves the persisted value of its key as it was.
C4_ShieldedFlushEffect ==
    (op = "BatchWrite" /\ ret) =>
        /\ AnchorEffect(pre.mapSproutAnchors, DB_SPROUT_ANCHOR, SproutEmptyRoot,
                        pre.coinsdb, coinsdb)
        /\ AnchorEffect(pre.mapSaplingAnchors, DB_SAPLING_ANCHOR,
                        SaplingEmptyRoot, pre.coinsdb, coinsdb)
        /\ NullifierEffect(pre.mapSproutNullifiers, DB_NULLIFIER, "SPROUT",
                           pre.coinsdb, coinsdb)
        /\ NullifierEffect(pre.mapSaplingNullifiers, DB_SAPLING_NULLIFIER,
                           "SAPLING", pre.coinsdb, coinsdb)
        /\ \A rt \in DOMAIN pre.mapSproutAnchors :
              ("DIRTY" \in pre.mapSproutAnchors[rt].flags
               /\ pre.mapSproutAnchors[rt].entered /\ rt # SproutEmptyRoot)
              => GetSproutAnchorAt(coinsdb, rt).tree
                   = pre.mapSproutAnchors[rt].tree
        /\ \A rt \in DOMAIN pre.mapSaplingAnchors :
              ("DIRTY" \in pre.mapSaplingAnchors[rt].flags
               /\ pre.mapSaplingAnchors[rt].entered /\ rt # SaplingEmptyRoot)
              => GetSaplingAnchorAt(coinsdb, rt).tree
                   = pre.mapSaplingAnchors[rt].tree

C4_Witness ==
    /\ op = "BatchWrite"
    /\ ret
    /\ \E rt \in DOMAIN pre.mapSproutAnchors :
          /\ "DIRTY" \in pre.mapSproutAnchors[rt].flags
          /\ ~pre.mapSproutAnchors[rt].entered
          /\ Exists(pre.coinsdb, <<DB_SPROUT_ANCHOR, rt>>)
          /\ ~GetSproutAnchorAt(coinsdb, rt).ret
    /\ \E nf \in DOMAIN pre.mapSaplingNullifiers :
          /\ "DIRTY" \in pre.mapSaplingNullifiers[nf].flags
          /\ ~pre.mapSaplingNullifiers[nf].entered
          /\ GetNullifier(pre.coinsdb, nf, "SAPLING").ret
          /\ ~GetNullifier(coinsdb, nf, "SAPLING").ret

EmptyRootKeys ==
    {<<DB_SPROUT_ANCHOR, SproutEmptyRoot>>,
     <<DB_SAPLING_ANCHOR, SaplingEmptyRoot>>}

\* C5: no flush puts a value under the empty-root key of a tree type, the
\* store never holds such a key, and reading the anchor at the empty root
\* succeeds with the canonical empty tree without a read of the store.
C5_EmptyRootNotPersisted ==
    /\ \A i \in 1..Len(batch) :
          batch[i].kind = "Write" => batch[i].key \notin EmptyRootKeys
    /\ \A key \in EmptyRootKeys : ~Exists(coinsdb, key)
    /\ GetSproutAnchorAt(coinsdb, SproutEmptyRoot)
         = [ret |-> TRUE, tree |-> SproutEmptyTree, read |-> FALSE]
    /\ GetSaplingAnchorAt(coinsdb, SaplingEmptyRoot)
         = [ret |-> TRUE, tree |-> SaplingEmptyTree, read |-> FALSE]

C5_Witness ==
    /\ op = "BatchWrite"
    /\ ret
    /\ SproutEmptyRoot \in DOMAIN pre.mapSproutAnchors
    /\ "DIRTY" \in pre.mapSproutAnchors[SproutEmptyRoot].flags
    /\ pre.mapSproutAnchors[SproutEmptyRoot].entered
    /\ SaplingEmptyRoot \in DOMAIN pre.mapSaplingAnchors
    /\ "DIRTY" \in pre.mapSaplingAnchors[SaplingEmptyRoot].flags
    /\ pre.mapSaplingAnchors[SaplingEmptyRoot].entered
    /\ GetSproutAnchorAt(coinsdb, SproutEmptyRoot).ret

\* C6: for each best slot on its own, a flush with a null hash leaves the
\* persisted slot as it was, a successful flush with a non-null hash makes
\* the getter return that hash, and so the slot always holds the last
\* non-null value that was committed.
C6_BestSlotUpdate ==
    /\ op = "BatchWrite" =>
        /\ IsNull(args.hashBlock) =>
              SameAt(coinsdb, pre.coinsdb, <<DB_BEST_BLOCK>>)
        /\ IsNull(args.hashSproutAnchor) =>
              SameAt(coinsdb, pre.coinsdb, <<DB_BEST_SPROUT_ANCHOR>>)
        /\ IsNull(args.hashSaplingAnchor) =>
              SameAt(coinsdb, pre.coinsdb, <<DB_BEST_SAPLING_ANCHOR>>)
        /\ (ret /\ ~IsNull(args.hashBlock)) =>
              GetBestBlock(coinsdb) = args.hashBlock
        /\ (ret /\ ~IsNull(args.hashSproutAnchor)) =>
              GetBestAnchor(coinsdb, "SPROUT").hash = args.hashSproutAnchor
        /\ (ret /\ ~IsNull(args.hashSaplingAnchor)) =>
              GetBestAnchor(coinsdb, "SAPLING").hash = args.hashSaplingAnchor
    /\ ~IsNull(lastBest.block) => GetBestBlock(coinsdb) = lastBest.block
    /\ ~IsNull(lastBest.sprout) =>
          GetBestAnchor(coinsdb, "SPROUT").hash = lastBest.sprout
    /\ ~IsNull(lastBest.sapling) =>
          GetBestAnchor(coinsdb, "SAPLING").hash = lastBest.sapling

C6_Witness ==
    /\ op = "BatchWrite"
    /\ ret
    /\ IsNull(args.hashBlock)
    /\ Exists(pre.coinsdb, <<DB_BEST_BLOCK>>)
    /\ GetBestBlock(coinsdb) = GetBestBlock(pre.coinsdb)
    /\ ~IsNull(args.hashSproutAnchor)
    /\ Exists(pre.coinsdb, <<DB_BEST_SPROUT_ANCHOR>>)
    /\ GetBestAnchor(pre.coinsdb, "SPROUT").hash # args.hashSproutAnchor
    /\ GetBestAnchor(coinsdb, "SPROUT").hash = args.hashSproutAnchor

(***************************************************************************)
(* Key codec of the chain metadata store.  A key is its tag followed by    *)
(* the payload fields in their declared order; heights and timestamps are  *)
(* four bytes, most significant first, so that byte order is field order.  *)
(***************************************************************************)
BE32(n) ==
    <<(n \div 16777216) % 256, (n \div 65536) % 256, (n \div 256) % 256,
      n % 256>>

LE32(n) ==
    <<n % 256, (n \div 256) % 256, (n \div 65536) % 256,
      (n \div 16777216) % 256>>

FromBE32(b) == ((b[1] * 256 + b[2]) * 256 + b[3]) * 256 + b[4]

FromLE32(b) == ((b[4] * 256 + b[3]) * 256 + b[2]) * 256 + b[1]

\* CAddressIndexKey: (type, address hash, block height, tx id, output index)
AddressIndexKey(type, hashBytes, blockHeight, txhash, index) ==
    [type |-> type, hashBytes |-> hashBytes, blockHeight |-> blockHeight,
     txhash |-> txhash, index |-> index]

SerAddressIndexKey(k) ==
    <<k.type, k.hashBytes>> \o BE32(k.blockHeight) \o <<k.txhash>>
    \o LE32(k.index)

UnserAddressIndexKey(b) ==
    IF Len(b) < 11 THEN [ok |-> FALSE]
    ELSE [ok |-> TRUE,
          key |-> AddressIndexKey(b[1], b[2], FromBE32(SubSeq(b, 3, 6)), b[7],
                                  FromLE32(SubSeq(b, 8, 11)))]

\* CAddressIndexIteratorKey and CAddressIndexIteratorHeightKey
SerAddressIndexIteratorKey(type, hashBytes) == <<type, hashBytes>>

SerAddressIndexIteratorHeightKey(type, hashBytes, blockHeight) ==
    <<type, hashBytes>> \o BE32(blockHeight)

\* CAddressUnspentKey: (type, address hash, tx id, output index)
AddressUnspentKey(type, hashBytes, txhash, index) ==
    [type |-> type, hashBytes |-> hashBytes, txhash |-> txhash,
     index |-> index]

SerAddressUnspentKey(k) == <<k.type, k.hashBytes, k.txhash>> \o LE32(k.index)

UnserAddressUnspentKey(b) ==
    IF Len(b) < 7 THEN [ok |-> FALSE]
    ELSE [ok |-> TRUE,
          key |-> AddressUnspentKey(b[1], b[2], b[3],
                                    FromLE32(SubSeq(b, 4, 7)))]

\* CSpentIndexKey: (tx id, output index)
SerSpentIndexKey(k) == <<k.txid>> \o LE32(k.outputIndex)

\* CTimestampIndexKey: (timestamp, block hash)
TimestampIndexKey(timestamp, blockHash) ==
    [timestamp |-> timestamp, blockHash |-> blockHash]

SerTimestampIndexKey(k) == BE32(k.timestamp) \o <<k.blockHash>>

UnserTimestampIndexKey(b) ==
    IF Len(b) < 5 THEN [ok |-> FALSE]
    ELSE [ok |-> TRUE,
          key |-> TimestampIndexKey(FromBE32(SubSeq(b, 1, 4)), b[5])]

SerTimestampIndexIteratorKey(timestamp) == BE32(timestamp)

\* A uint256 inside a block index key keeps two digits, so that a key cut
\* off inside its hash is a key of the store too.
SerUint256(hash) == <<hash \div 4, hash % 4>>

UnserUint256(b) ==
    IF Len(b) < 2 THEN [ok |-> FALSE]
    ELSE [ok |-> TRUE, hash |-> b[1] * 4 + b[2]]

\* ssKey >> chType; ssKey >> indexKey
Unser(keyType, b) ==
    IF keyType = "CAddressIndexKey" THEN UnserAddressIndexKey(b)
    ELSE IF keyType = "CAddressUnspentKey" THEN UnserAddressUnspentKey(b)
    ELSE UnserTimestampIndexKey(b)

ParseKey(slKey, keyType) ==
    IF Len(slKey) < 1 THEN [ok |-> FALSE]
    ELSE LET u == Unser(keyType, Tail(slKey))
         IN  IF u.ok THEN [ok |-> TRUE, chType |-> slKey[1], key |-> u.key]
             ELSE [ok |-> FALSE]

\* ssValue >> nValue for a value of n fields
ParseValue(slValue, n) ==
    IF Len(slValue) < n THEN [ok |-> FALSE]
    ELSE [ok |-> TRUE, value |-> SubSeq(slValue, 1, n)]

\* pcursor->Seek(key): the keys not below `key', in byte order.
Seek(db, key) == SortKeys({k \in DOMAIN db : ~LexLess(k, key)})

\* boost::this_thread::interruption_point() at the head of a loop body:
\* intr is the iteration at which an interruption is pending, 0 for none.
interruption_point(intr) == intr = 1

NextIteration(intr) == IF intr = 0 THEN 0 ELSE intr - 1

\* How a scan ends: by a return, or by the thread_interrupted exception,
\* which no handler of the scans catches.
Returned(r, o) == [ret |-> r, out |-> o, threw |-> FALSE]

Interrupted(o) == [ret |-> FALSE, out |-> o, threw |-> TRUE]

\* Null values of the index updates.
AddressUnspentValueIsNull(v) == v[1] = -1

SpentIndexValueIsNull(v) == v[1] = NullHash

(***************************************************************************)
(* CBlockTreeDB: address index.                                            *)
(***************************************************************************)
MaxEntries == 3
MaxVect == 2

AddressTypes == {1, 2}
AddressHashes == {1, 2}
Heights == {1, 2, 3}
HeightBounds == {0, 2}
Amounts == {<<5>>}

AddressIndexKeys ==
    {AddressIndexKey(t, h, n, 1, 0) :
        t \in AddressTypes, h \in AddressHashes, n \in Heights}

\* Entries of the other indices that share the store.
OtherEntries ==
    ApplyBatch(EmptyDB,
        << WriteOp(<<DB_FLAG, 1>>, <<49>>),
           WriteOp(<<DB_BLOCK_INDEX>> \o SerUint256(5), <<0, 1, 0>>),
           WriteOp(<<DB_BLOCKHASHINDEX, 1>>, <<1>>) >>)

EntriesOf(db, tag) == {k \in DOMAIN db : k[1] = tag}

Vects(S) == UNION {[1..n -> S] : n \in 1..MaxVect}

\* A call of the chain metadata store that only leaves a return value.
TreeReturn(name, r) ==
    /\ op' = name
    /\ args' = <<>>
    /\ pre' = <<>>
    /\ ret' = r
    /\ out' = <<>>
    /\ threw' = FALSE
    /\ batch' = <<>>
    /\ UNCHANGED <<coinVars>>

\* A call of the chain metadata store that fills an output parameter.
TreeOutput(name, a, p, r) ==
    /\ op' = name
    /\ args' = a
    /\ pre' = p
    /\ ret' = r.ret
    /\ out' = r.out
    /\ threw' = r.threw
    /\ batch' = <<>>
    /\ UNCHANGED <<coinVars>>

RECURSIVE WriteAddressIndexBatch(_)
WriteAddressIndexBatch(vect) ==
    IF vect = <<>> THEN <<>>
    ELSE <<WriteOp(<<DB_ADDRESSINDEX>> \o SerAddressIndexKey(Head(vect)[1]),
                   Head(vect)[2])>>
         \o WriteAddressIndexBatch(Tail(vect))

WriteAddressIndex(vect, ok) ==
    LET w == WriteBatch(blocktree, WriteAddressIndexBatch(vect), ok)
    IN  /\ blocktree' = w.db
        /\ TreeReturn("WriteAddressIndex", w.ret)
        /\ UNCHANGED <<mapBlockIndex, CBlockIndex, chainActive, lastUpd>>

RECURSIVE EraseAddressIndexBatch(_)
EraseAddressIndexBatch(vect) ==
    IF vect = <<>> THEN <<>>
    ELSE <<EraseOp(<<DB_ADDRESSINDEX>> \o SerAddressIndexKey(Head(vect)[1]))>>
         \o EraseAddressIndexBatch(Tail(vect))

EraseAddressIndex(vect, ok) ==
    LET w == WriteBatch(blocktree, EraseAddressIndexBatch(vect), ok)
    IN  /\ blocktree' = w.db
        /\ TreeReturn("EraseAddressIndex", w.ret)
        /\ UNCHANGED <<mapBlockIndex, CBlockIndex, chainActive, lastUpd>>

\* Faulty variant: an entry whose key cannot be decoded is stepped over.
RECURSIVE Mut_AddressIndexScanSkipsBadKey(_, _, _, _, _, _)
Mut_AddressIndexScanSkipsBadKey(db, cursor, addressHash, end, addressIndex, intr) ==
    IF cursor = <<>> THEN Returned(TRUE, addressIndex)
    ELSE IF interruption_point(intr) THEN Interrupted(addressIndex)
    ELSE LET slKey == Head(cursor)
             k == ParseKey(slKey, "CAddressIndexKey")
         IN  IF ~k.ok
             THEN Mut_AddressIndexScanSkipsBadKey(db, Tail(cursor),
                      addressHash, end, addressIndex, NextIteration(intr))
             ELSE IF k.chType = DB_ADDRESSINDEX /\ k.key.hashBytes = addressHash
             THEN IF end > 0 /\ k.key.blockHeight > end
                  THEN Returned(TRUE, addressIndex)
                  ELSE LET v == ParseValue(db[slKey], 1)
                       IN  IF ~v.ok THEN Returned(FALSE, addressIndex)
                           ELSE Mut_AddressIndexScanSkipsBadKey(db,
                                    Tail(cursor), addressHash, end,
                                    Append(addressIndex, <<k.key, v.value>>),
                                    NextIteration(intr))
             ELSE Returned(TRUE, addressIndex)

\* The loop of ReadAddressIndex over the keys from the seek position on.
RECURSIVE AddressIndexScan(_, _, _, _, _, _)
AddressIndexScan(db, cursor, addressHash, end, addressIndex, intr) ==
    IF cursor = <<>> THEN Returned(TRUE, addressIndex)
    ELSE IF interruption_point(intr) THEN Interrupted(addressIndex)
    ELSE LET slKey == Head(cursor)
             k == ParseKey(slKey, "CAddressIndexKey")
         IN  IF ~k.ok THEN Returned(TRUE, addressIndex)
             ELSE IF k.chType = DB_ADDRESSINDEX /\ k.key.hashBytes = addressHash
             THEN IF end > 0 /\ k.key.blockHeight > end
                  THEN Returned(TRUE, addressIndex)
                  ELSE LET v == ParseValue(db[slKey], 1)
                       IN  IF ~v.ok THEN Returned(FALSE, addressIndex)
                           ELSE AddressIndexScan(db, Tail(cursor), addressHash,
                                    end,
                                    Append(addressIndex, <<k.key, v.value>>),
                                    NextIteration(intr))
             ELSE Returned(TRUE, addressIndex)

ReadAddressIndexCall(db, addressHash, type, start, end, intr) ==
    LET ssKeySet ==
            IF start > 0 /\ end > 0
            THEN <<DB_ADDRESSINDEX>>
                 \o SerAddressIndexIteratorHeightKey(type, addressHash, start)
            ELSE <<DB_ADDRESSINDEX>>
                 \o SerAddressIndexIteratorKey(type, addressHash)
    IN  AddressIndexScan(db, Seek(db, ssKeySet), addressHash, end, <<>>, intr)

ReadAddressIndex(addressHash, type, start, end, intr) ==
    LET r == ReadAddressIndexCall(blocktree, addressHash, type, start, end,
                                  intr)
    IN  /\ TreeOutput("ReadAddressIndex",
                      [addressHash |-> addressHash, type |-> type,
                       start |-> start, end |-> end, intr |-> intr],
                      [blocktree |-> blocktree], r)
        /\ UNCHANGED <<treeVars>>

InitTree ==
    /\ coinsdb = EmptyDB
    /\ mapCoins = EmptyMap
    /\ mapSproutAnchors = EmptyMap
    /\ mapSaplingAnchors = EmptyMap
    /\ mapSproutNullifiers = EmptyMap
    /\ mapSaplingNullifiers = EmptyMap
    /\ lastBest = BestOf(coinsdb)
    /\ blocktree = OtherEntries
    /\ lastUpd = EmptyMap
    /\ op = "init"
    /\ args = <<>>
    /\ pre = <<>>
    /\ ret = FALSE
    /\ out = <<>>
    /\ threw = FALSE
    /\ batch = <<>>

InitAddressIndex ==
    /\ InitTree
    /\ mapBlockIndex = EmptyMap
    /\ CBlockIndex = EmptyMap
    /\ chainActive = {}

NextAddressIndex ==
    \/ \E vect \in Vects(AddressIndexKeys \X Amounts), ok \in BOOLEAN :
          /\ WriteAddressIndex(vect, ok)
          /\ Cardinality(EntriesOf(blocktree', DB_ADDRESSINDEX)) <= MaxEntries
    \/ \E vect \in Vects(AddressIndexKeys \X Amounts), ok \in BOOLEAN :
          EraseAddressIndex(vect, ok)
    \/ \E addressHash \in AddressHashes, type \in AddressTypes,
          start \in HeightBounds, end \in HeightBounds :
          ReadAddressIndex(addressHash, type, start, end, 0)

SpecAddressIndex == InitAddressIndex /\ [][NextAddressIndex]_vars

\* The entries of the address index that the store holds.
AddressIndexEntries(db) ==
    {ParseKey(k, "CAddressIndexKey").key :
        k \in EntriesOf(db, DB_ADDRESSINDEX)}

\* C7: the address scans return only entries of the requested address type
\* and the requested address hash.
C7_AddressScanIsolation ==
    op \in {"ReadAddressIndex", "ReadAddressUnspentIndex"} =>
        \A i \in 1..Len(out) :
            /\ out[i][1].type = args.type
            /\ out[i][1].hashBytes = args.addressHash

\* C8: ReadAddressIndex returns the entries of the address in ascending
\* height order, none below start when start > 0, none above end when
\* end > 0, and with end > 0 every entry of the address inside the bounds.
C8_AddressHeightBounds ==
    op = "ReadAddressIndex" =>
        /\ \A i \in 1..Len(out), j \in 1..Len(out) :
              i < j => out[i][1].blockHeight <= out[j][1].blockHeight
        /\ args.start > 0 =>
              \A i \in 1..Len(out) : out[i][1].blockHeight >= args.start
        /\ args.end > 0 =>
              /\ \A i \in 1..Len(out) : out[i][1].blockHeight <= args.end
              /\ \A k \in AddressIndexEntries(blocktree) :
                    (/\ k.type = args.type
                     /\ k.hashBytes = args.addressHash
                     /\ k.blockHeight <= args.end
                     /\ k.blockHeight >= args.start)
                    => \E i \in 1..Len(out) : out[i][1] = k

(***************************************************************************)
(* CBlockTreeDB: spent index and address-unspent index.                    *)
(***************************************************************************)
AddressUnspentKeys ==
    {AddressUnspentKey(t, h, 1, 0) : t \in AddressTypes, h \in AddressHashes}

\* (satoshis, block height); satoshis = -1 is the null value
AddressUnspentValues == {<<-1, 0>>, <<5, 1>>, <<7, 2>>}

SpentIndexKeys == {[txid |-> 1, outputIndex |-> 0]}

\* (spending tx id, input index, block height, address hash); a null
\* spending tx id is the null value
SpentIndexValues == {<<NullHash, 0, 0, 0>>, <<2, 0, 1, 1>>}

ReadSpentIndexCall(db, key) ==
    LET r == Read(db, <<DB_SPENTINDEX>> \o SerSpentIndexKey(key), <<>>)
    IN  Returned(r.found, r.value)

ReadSpentIndex(key) ==
    LET r == ReadSpentIndexCall(blocktree, key)
    IN  /\ TreeOutput("ReadSpentIndex", [key |-> key], <<>>, r)
        /\ UNCHANGED <<treeVars>>

SpentIndexStep(key, value) ==
    IF SpentIndexValueIsNull(value)
    THEN EraseOp(<<DB_SPENTINDEX>> \o SerSpentIndexKey(key))
    ELSE WriteOp(<<DB_SPENTINDEX>> \o SerSpentIndexKey(key), value)

RECURSIVE UpdateSpentIndexBatch(_)
UpdateSpentIndexBatch(vect) ==
    IF vect = <<>> THEN <<>>
    ELSE <<SpentIndexStep(Head(vect)[1], Head(vect)[2])>>
         \o UpdateSpentIndexBatch(Tail(vect))

\* History: the value each key was given by the last committed update.
RECURSIVE Updated(_, _, _)
Updated(h, tag, vect) ==
    IF vect = <<>> THEN h
    ELSE Updated(MapPut(h, <<tag, Head(vect)[1]>>, Head(vect)[2]), tag,
                 Tail(vect))

UpdateSpentIndex(vect, ok) ==
    LET w == WriteBatch(blocktree, UpdateSpentIndexBatch(vect), ok)
    IN  /\ blocktree' = w.db
        /\ lastUpd' = IF w.ret THEN Updated(lastUpd, DB_SPENTINDEX, vect)
                      ELSE lastUpd
        /\ TreeReturn("UpdateSpentIndex", w.ret)
        /\ UNCHANGED <<mapBlockIndex, CBlockIndex, chainActive>>

AddressUnspentStep(key, value) ==
    IF AddressUnspentValueIsNull(value)
    THEN EraseOp(<<DB_ADDRESSUNSPENTINDEX>> \o SerAddressUnspentKey(key))
    ELSE WriteOp(<<DB_ADDRESSUNSPENTINDEX>> \o SerAddressUnspentKey(key),
                 value)

RECURSIVE UpdateAddressUnspentIndexBatch(_)
UpdateAddressUnspentIndexBatch(vect) ==
    IF vect = <<>> THEN <<>>
    ELSE <<AddressUnspentStep(Head(vect)[1], Head(vect)[2])>>
         \o UpdateAddressUnspentIndexBatch(Tail(vect))

UpdateAddressUnspentIndex(vect, ok) ==
    LET w == WriteBatch(blocktree, UpdateAddressUnspentIndexBatch(vect), ok)
    IN  /\ blocktree' = w.db
        /\ lastUpd' = IF w.ret
                      THEN Updated(lastUpd, DB_ADDRESSUNSPENTINDEX, vect)
                      ELSE lastUpd
        /\ TreeReturn("UpdateAddressUnspentIndex", w.ret)
        /\ UNCHANGED <<mapBlockIndex, CBlockIndex, chainActive>>

\* The loop of ReadAddressUnspentIndex over the keys from the seek position.
RECURSIVE AddressUnspentScan(_, _, _, _, _)
AddressUnspentScan(db, cursor, addressHash, unspentOutputs, intr) ==
    IF cursor = <<>> THEN Returned(TRUE, unspentOutputs)
    ELSE IF interruption_point(intr) THEN Interrupted(unspentOutputs)
    ELSE LET slKey == Head(cursor)
             k == ParseKey(slKey, "CAddressUnspentKey")
         IN  IF ~k.ok THEN Returned(TRUE, unspentOutputs)
             ELSE IF /\ k.chType = DB_ADDRESSUNSPENTINDEX
                     /\ k.key.hashBytes = addressHash
             THEN LET v == ParseValue(db[slKey], 2)
                  IN  IF ~v.ok THEN Returned(FALSE, unspentOutputs)
                      ELSE AddressUnspentScan(db, Tail(cursor), addressHash,
                               Append(unspentOutputs, <<k.key, v.value>>),
                               NextIteration(intr))
             ELSE Returned(TRUE, unspentOutputs)

ReadAddressUnspentIndexCall(db, addressHash, type, intr) ==
    LET ssKeySet == <<DB_ADDRESSUNSPENTINDEX>>
                    \o SerAddressIndexIteratorKey(type, addressHash)
    IN  AddressUnspentScan(db, Seek(db, ssKeySet), addressHash, <<>>, intr)

\* Faulty variant: the scan deletes the first entry it has looked at.
Mut_ReadAddressUnspentIndexErases(addressHash, type, intr) ==
    LET r == ReadAddressUnspentIndexCall(blocktree, addressHash, type, intr)
        cursor == Seek(blocktree, <<DB_ADDRESSUNSPENTINDEX>>)
    IN  /\ TreeOutput("ReadAddressUnspentIndex",
                      [addressHash |-> addressHash, type |-> type,
                       intr |-> intr],
                      [blocktree |-> blocktree], r)
        /\ blocktree' = IF cursor = <<>> \/ r.threw THEN blocktree
                        ELSE ApplyOp(blocktree, EraseOp(Head(cursor)))
        /\ UNCHANGED <<mapBlockIndex, CBlockIndex, chainActive, lastUpd>>

ReadAddressUnspentIndex(addressHash, type, intr) ==
    LET r == ReadAddressUnspentIndexCall(blocktree, addressHash, type, intr)
    IN  /\ TreeOutput("ReadAddressUnspentIndex",
                      [addressHash |-> addressHash, type |-> type,
                       intr |-> intr],
                      [blocktree |-> blocktree], r)
        /\ UNCHANGED <<treeVars>>

InitUnspent ==
    /\ InitTree
    /\ mapBlockIndex = EmptyMap
    /\ CBlockIndex = EmptyMap
    /\ chainActive = {}

NextUnspent ==
    \/ \E vect \in Vects(AddressUnspentKeys \X AddressUnspentValues),
          ok \in BOOLEAN :
          UpdateAddressUnspentIndex(vect, ok)
    \/ \E vect \in Vects(SpentIndexKeys \X SpentIndexValues), ok \in BOOLEAN :
          UpdateSpentIndex(vect, ok)
    \/ \E addressHash \in AddressHashes, type \in AddressTypes :
          ReadAddressUnspentIndex(addressHash, type, 0)
    \/ \E key \in SpentIndexKeys : ReadSpentIndex(key)

SpecUnspent == InitUnspent /\ [][NextUnspent]_vars

\* C9: ReadAddressUnspentIndex returns exactly the keys of the requested
\* (type, address hash) whose last committed update carried a non-null
\* value, each with that value; ReadSpentIndex finds a key exactly when its
\* last committed update carried a non-null value, and then that value.
C9_UnspentReflectsUpdates ==
    /\ op = "ReadAddressUnspentIndex" =>
        /\ ret
        /\ {out[i] : i \in 1..Len(out)}
             = {<<k, lastUpd[<<DB_ADDRESSUNSPENTINDEX, k>>]>> :
                  k \in {x \in AddressUnspentKeys :
                           /\ x.type = args.type
                           /\ x.hashBytes = args.addressHash
                           /\ <<DB_ADDRESSUNSPENTINDEX, x>> \in DOMAIN lastUpd
                           /\ ~AddressUnspentValueIsNull(
                                  lastUpd[<<DB_ADDRESSUNSPENTINDEX, x>>])}}
    /\ op = "ReadSpentIndex" =>
        LET h == <<DB_SPENTINDEX, args.key>>
        IN  IF h \in DOMAIN lastUpd /\ ~SpentIndexValueIsNull(lastUpd[h])
            THEN ret /\ out = lastUpd[h]
            ELSE ~ret

(***************************************************************************)
(* CBlockTreeDB: timestamp index.                                          *)
(***************************************************************************)
NULL == 0

\* new CBlockIndex()
NewBlockIndex == [pprev |-> NULL, nNonce |-> 0, nHeight |-> 0]

Timestamps == {1, 2, 256}
TimeBounds == {1, 2, 256, 257}
BlockHashes == {1, 2, 3}

TimestampIndexKeys ==
    {TimestampIndexKey(t, h) : t \in Timestamps, h \in BlockHashes}

\* CChain::Contains
Contains(chain, pindex) == pindex # NULL /\ pindex \in chain

\* mapBlockIndex[hash]: a lookup that inserts a NULL node for a new hash.
Subscript(map, hash) ==
    IF hash \in DOMAIN map THEN [map |-> map, value |-> map[hash]]
    ELSE [map |-> MapPut(map, hash, NULL), value |-> NULL]

blockOnchainActive(map, chain, hash) ==
    LET pblockindex == Subscript(map, hash)
    IN  [map |-> pblockindex.map,
         ret |-> IF ~Contains(chain, pblockindex.value) THEN FALSE ELSE TRUE]

WriteTimestampIndex(timestampIndex, ok) ==
    LET b == <<WriteOp(<<DB_TIMESTAMPINDEX>>
                       \o SerTimestampIndexKey(timestampIndex), <<0>>)>>
        w == WriteBatch(blocktree, b, ok)
    IN  /\ blocktree' = w.db
        /\ TreeReturn("WriteTimestampIndex", w.ret)
        /\ UNCHANGED <<mapBlockIndex, CBlockIndex, chainActive, lastUpd>>

\* Faulty variant: the upper bound is taken as inclusive.
Mut_TimestampInRangeInclusive(chType, indexKey, high) ==
    chType = DB_TIMESTAMPINDEX /\ indexKey.timestamp <= high

TimestampInRange(chType, indexKey, high) ==
    chType = DB_TIMESTAMPINDEX /\ indexKey.timestamp < high

\* The loop of ReadTimestampIndex over the keys from the seek position on.
RECURSIVE TimestampScan(_, _, _, _, _, _, _)
TimestampScan(cursor, high, fActiveOnly, map, chain, hashes, intr) ==
    IF cursor = <<>>
    THEN [ret |-> TRUE, out |-> hashes, threw |-> FALSE, map |-> map]
    ELSE IF interruption_point(intr)
    THEN [ret |-> FALSE, out |-> hashes, threw |-> TRUE, map |-> map]
    ELSE LET k == ParseKey(Head(cursor), "CTimestampIndexKey")
         IN  IF ~k.ok
             THEN [ret |-> TRUE, out |-> hashes, threw |-> FALSE, map |-> map]
             ELSE IF TimestampInRange(k.chType, k.key, high)
             THEN LET item == <<k.key.blockHash, k.key.timestamp>>
                  IN  IF fActiveOnly
                      THEN LET a == blockOnchainActive(map, chain,
                                                       k.key.blockHash)
                           IN  TimestampScan(Tail(cursor), high, fActiveOnly,
                                   a.map, chain,
                                   IF a.ret THEN Append(hashes, item)
                                   ELSE hashes,
                                   NextIteration(intr))
                      ELSE TimestampScan(Tail(cursor), high, fActiveOnly, map,
                               chain, Append(hashes, item),
                               NextIteration(intr))
             ELSE [ret |-> TRUE, out |-> hashes, threw |-> FALSE, map |-> map]

ReadTimestampIndexCall(db, high, low, fActiveOnly, map, chain, intr) ==
    LET ssKeySet == <<DB_TIMESTAMPINDEX>> \o SerTimestampIndexIteratorKey(low)
    IN  TimestampScan(Seek(db, ssKeySet), high, fActiveOnly, map, chain, <<>>,
                      intr)

ReadTimestampIndex(high, low, fActiveOnly, intr) ==
    LET r == ReadTimestampIndexCall(blocktree, high, low, fActiveOnly,
                                    mapBlockIndex, chainActive, intr)
    IN  /\ mapBlockIndex' = r.map
        /\ TreeOutput("ReadTimestampIndex",
                      [high |-> high, low |-> low, fActiveOnly |-> fActiveOnly,
                       intr |-> intr],
                      [mapBlockIndex |-> mapBlockIndex,
                       blocktree |-> blocktree], r)
        /\ UNCHANGED <<blocktree, CBlockIndex, chainActive, lastUpd>>

\* Block 1 is on the active chain, block 2 on a stale branch, block 3 is
\* not in the block index.
InitTimestamp ==
    /\ InitTree
    /\ mapBlockIndex = MapPut(MapPut(EmptyMap, 1, 1), 2, 2)
    /\ CBlockIndex = MapPut(MapPut(EmptyMap, 1, NewBlockIndex), 2,
                            NewBlockIndex)
    /\ chainActive = {1}

NextTimestamp ==
    \/ \E timestampIndex \in TimestampIndexKeys, ok \in BOOLEAN :
          /\ WriteTimestampIndex(timestampIndex, ok)
          /\ Cardinality(EntriesOf(blocktree', DB_TIMESTAMPINDEX)) <= MaxEntries
    \/ \E high \in TimeBounds, low \in TimeBounds, fActiveOnly \in BOOLEAN :
          ReadTimestampIndex(high, low, fActiveOnly, 0)

SpecTimestamp == InitTimestamp /\ [][NextTimestamp]_vars

\* The entries of the timestamp index that the store holds.
TimestampIndexEntries(db) ==
    {ParseKey(k, "CTimestampIndexKey").key :
        k \in EntriesOf(db, DB_TIMESTAMPINDEX)}

\* A block is on the active chain when the block index has a node for it
\* and that node is part of the chain.
OnActiveChain(map, chain, hash) ==
    hash \in DOMAIN map /\ map[hash] # NULL /\ map[hash] \in chain

ItemLess(a, b) == a[2] < b[2] \/ (a[2] = b[2] /\ a[1] < b[1])

\* C10: ReadTimestampIndex(high, low, fActiveOnly) succeeds and returns, in
\* ascending (timestamp, block hash) order and each once, exactly the
\* persisted entries with low <= timestamp < high, restricted to the blocks
\* on the active chain when fActiveOnly is set.
C10_TimestampScanRange ==
    op = "ReadTimestampIndex" =>
        /\ ret
        /\ \A i \in 1..Len(out), j \in 1..Len(out) :
              i < j => ItemLess(out[i], out[j])
        /\ {out[i] : i \in 1..Len(out)}
             = {<<k.blockHash, k.timestamp>> :
                  k \in {x \in TimestampIndexEntries(blocktree) :
                           /\ args.low <= x.timestamp
                           /\ x.timestamp < args.high
                           /\ args.fActiveOnly =>
                                 OnActiveChain(pre.mapBlockIndex, chainActive,
                                               x.blockHash)}}

C10_Witness ==
    /\ op = "ReadTimestampIndex"
    /\ args.fActiveOnly
    /\ Len(out) >= 2
    /\ \E x \in TimestampIndexEntries(blocktree) :
          /\ args.low <= x.timestamp
          /\ x.timestamp < args.high
          /\ ~OnActiveChain(pre.mapBlockIndex, chainActive, x.blockHash)
          /\ ItemLess(out[1], <<x.blockHash, x.timestamp>>)
          /\ ItemLess(<<x.blockHash, x.timestamp>>, out[2])

(***************************************************************************)
(* The scans over a store that an earlier run, another version or a disk   *)
(* fault left with entries the readers cannot decode.                      *)
(***************************************************************************)
Entry(key, value) == [key |-> key, value |-> value]

\* Address index: heights 1, 2 and 3 of (type 1, hash 1); a key cut off
\* after its height field, which sorts between heights 1 and 2; an entry
\* of height 2 whose value is cut off.
AddressIndexPool ==
    { Entry(<<DB_ADDRESSINDEX>> \o SerAddressIndexKey(
                AddressIndexKey(1, 1, n, 1, 0)), <<5>>) : n \in Heights }
    \cup { Entry(<<DB_ADDRESSINDEX, 1, 1>> \o BE32(2), <<5>>),
           Entry(<<DB_ADDRESSINDEX>> \o SerAddressIndexKey(
                     AddressIndexKey(1, 1, 2, 1, 0)), <<>>) }

\* Address-unspent index: outputs of transactions 1, 2 and 3 to (type 1,
\* hash 1); a key cut off inside transaction 2's entry; an entry of
\* transaction 2 whose value lacks the height.
AddressUnspentPool ==
    { Entry(<<DB_ADDRESSUNSPENTINDEX>> \o SerAddressUnspentKey(
                AddressUnspentKey(1, 1, t, 0)), <<5, 1>>) : t \in {1, 2, 3} }
    \cup { Entry(<<DB_ADDRESSUNSPENTINDEX, 1, 1, 2>>, <<5, 1>>),
           Entry(<<DB_ADDRESSUNSPENTINDEX>> \o SerAddressUnspentKey(
                     AddressUnspentKey(1, 1, 2, 0)), <<5>>) }

\* Timestamp index: blocks at times 1, 2 and 256; a key cut off after its
\* timestamp 2.
TimestampPool ==
    { Entry(<<DB_TIMESTAMPINDEX>> \o SerTimestampIndexKey(
                TimestampIndexKey(t, 1)), <<0>>) : t \in Timestamps }
    \cup { Entry(<<DB_TIMESTAMPINDEX>> \o BE32(2), <<0>>) }

\* The stores of at most MaxEntries entries of one pool, a key held once.
RECURSIVE StoreOf(_, _)
StoreOf(db, S) ==
    IF S = {} THEN db
    ELSE LET e == CHOOSE x \in S : TRUE
         IN  StoreOf(ApplyOp(db, WriteOp(e.key, e.value)), S \ {e})

StoresOver(base, pool) ==
    { StoreOf(base, S) :
        S \in { T \in SUBSET pool :
                  /\ Cardinality(T) <= MaxEntries
                  /\ \A x \in T, y \in T : x.key = y.key => x = y } }

TreeScanStores ==
    StoresOver(OtherEntries, AddressIndexPool)
    \cup StoresOver(OtherEntries, AddressUnspentPool)
    \cup StoresOver(OtherEntries, TimestampPool)

Interruptions == 0..MaxEntries

(***************************************************************************)
(* CBlockTreeDB::LoadBlockIndexGuts.  A CDiskBlockIndex value is           *)
(* (hashPrev, nNonce, nHeight): nNonce stands for the header fields other  *)
(* than the previous hash, nHeight for the chain-status fields.            *)
(***************************************************************************)
BlockHeader(hashPrev, nNonce) == [hashPrevBlock |-> hashPrev, nNonce |-> nNonce]

\* CBlockHeader::GetHash, an injective function of the header fields.  The
\* header (0, 1) is a first block, (5, 1) and (5, 2) are its children, one
\* with a smaller and one with a larger hash, (2, 1) is a grandchild, and
\* the block before (7, 1) has no header here.
GetHash(header) ==
    CASE header = BlockHeader(0, 1) -> 5
      [] header = BlockHeader(5, 1) -> 2
      [] header = BlockHeader(5, 2) -> 9
      [] header = BlockHeader(2, 1) -> 6
      [] header = BlockHeader(7, 1) -> 3
      [] OTHER -> 15

\* pcursor->GetValue(diskindex)
UnserDiskBlockIndex(slValue) ==
    IF Len(slValue) < 3 THEN [ok |-> FALSE]
    ELSE [ok |-> TRUE,
          diskindex |-> [hashPrev |-> slValue[1], nNonce |-> slValue[2],
                         nHeight |-> slValue[3]]]

\* CDiskBlockIndex::GetBlockHash
DiskGetBlockHash(diskindex) ==
    GetHash(BlockHeader(diskindex.hashPrev, diskindex.nNonce))

\* InsertBlockIndex(hash): the node of the hash, created when the map has
\* none; NULL for the null hash.  A node is named by its hash.
InsertBlockIndex(map, heap, hash) ==
    IF hash = NullHash THEN [map |-> map, heap |-> heap, pindex |-> NULL]
    ELSE IF hash \in DOMAIN map
    THEN [map |-> map, heap |-> heap, pindex |-> map[hash]]
    ELSE [map |-> MapPut(map, hash, hash),
          heap |-> MapPut(heap, hash, NewBlockIndex), pindex |-> hash]

\* CBlockIndex::GetBlockHash: *phashBlock, the map key of the node
GetBlockHash(pindex) == pindex

\* CBlockIndex::GetBlockHeader
GetBlockHeader(heap, pindex) ==
    BlockHeader(IF heap[pindex].pprev # NULL
                THEN GetBlockHash(heap[pindex].pprev) ELSE NullHash,
                heap[pindex].nNonce)

\* pcursor->GetKey(key) for a std::pair<char, uint256>; the hash takes
\* `digits' symbols of the key: two in the block index, one elsewhere.
GetKey(slKey, digits) ==
    IF Len(slKey) < 1 + digits THEN [ok |-> FALSE]
    ELSE [ok |-> TRUE, first |-> slKey[1],
          second |-> IF digits = 1 THEN slKey[2]
                     ELSE UnserUint256(Tail(slKey)).hash]

\* Faulty variant: the predecessor is linked only when its node is already
\* in the map.
Mut_LoadStepLinksKnownOnly(map, heap, diskindex) ==
    LET n == InsertBlockIndex(map, heap, DiskGetBlockHash(diskindex))
        pindexNew == n.pindex
        filled == [n.heap EXCEPT ![pindexNew] =
                      [pprev |-> IF diskindex.hashPrev \in DOMAIN n.map
                                 THEN n.map[diskindex.hashPrev] ELSE NULL,
                       nNonce |-> diskindex.nNonce,
                       nHeight |-> diskindex.nHeight]]
        header == GetBlockHeader(filled, pindexNew)
    IN  [map |-> n.map, heap |-> filled,
         consistent |-> GetHash(header) = GetBlockHash(pindexNew)]

\* Faulty variant: a header field is not copied into the node.
Mut_LoadStepDropsNonce(map, heap, diskindex) ==
    LET n == InsertBlockIndex(map, heap, DiskGetBlockHash(diskindex))
        pindexNew == n.pindex
        p == InsertBlockIndex(n.map, n.heap, diskindex.hashPrev)
        filled == [p.heap EXCEPT ![pindexNew] =
                      [pprev |-> p.pindex, nNonce |-> @.nNonce,
                       nHeight |-> diskindex.nHeight]]
        header == GetBlockHeader(filled, pindexNew)
    IN  [map |-> p.map, heap |-> filled,
         consistent |-> GetHash(header) = GetBlockHash(pindexNew)]

\* Construct the block index object of one entry, copy the fields, and
\* check the header rebuilt from the node against the node's hash.
LoadStep(map, heap, diskindex) ==
    LET n == InsertBlockIndex(map, heap, DiskGetBlockHash(diskindex))
        pindexNew == n.pindex
        p == InsertBlockIndex(n.map, n.heap, diskindex.hashPrev)
        filled == [p.heap EXCEPT ![pindexNew] =
                      [pprev |-> p.pindex, nNonce |-> diskindex.nNonce,
                       nHeight |-> diskindex.nHeight]]
        header == GetBlockHeader(filled, pindexNew)
    IN  [map |-> p.map, heap |-> filled,
         consistent |-> GetHash(header) = GetBlockHash(pindexNew)]

LoadResult(r, t, map, heap, o) ==
    [ret |-> r, threw |-> t, map |-> map, heap |-> heap, out |-> o]

\* Faulty variant: a value that cannot be decoded ends the loop like the
\* end of the index.
RECURSIVE Mut_LoadLoopBreaksOnBadValue(_, _, _, _, _, _)
Mut_LoadLoopBreaksOnBadValue(db, cursor, map, heap, loaded, intr) ==
    IF cursor = <<>> THEN LoadResult(TRUE, FALSE, map, heap, loaded)
    ELSE IF interruption_point(intr)
    THEN LoadResult(FALSE, TRUE, map, heap, loaded)
    ELSE LET slKey == Head(cursor)
             key == GetKey(slKey, 2)
         IN  IF key.ok /\ key.first = DB_BLOCK_INDEX
             THEN LET v == UnserDiskBlockIndex(db[slKey])
                  IN  IF v.ok
                      THEN LET n == LoadStep(map, heap, v.diskindex)
                           IN  IF ~n.consistent
                               THEN LoadResult(FALSE, FALSE, n.map, n.heap,
                                               Append(loaded, slKey))
                               ELSE Mut_LoadLoopBreaksOnBadValue(db,
                                        Tail(cursor), n.map, n.heap,
                                        Append(loaded, slKey),
                                        NextIteration(intr))
                      ELSE LoadResult(TRUE, FALSE, map, heap, loaded)
             ELSE LoadResult(TRUE, FALSE, map, heap, loaded)

\* The loop over the keys from the seek position on; `loaded' lists the
\* keys whose entries were turned into nodes.
RECURSIVE LoadLoop(_, _, _, _, _, _)
LoadLoop(db, cursor, map, heap, loaded, intr) ==
    IF cursor = <<>> THEN LoadResult(TRUE, FALSE, map, heap, loaded)
    ELSE IF interruption_point(intr)
    THEN LoadResult(FALSE, TRUE, map, heap, loaded)
    ELSE LET slKey == Head(cursor)
             key == GetKey(slKey, 2)
         IN  IF key.ok /\ key.first = DB_BLOCK_INDEX
             THEN LET v == UnserDiskBlockIndex(db[slKey])
                  IN  IF v.ok
                      THEN LET n == LoadStep(map, heap, v.diskindex)
                           IN  IF ~n.consistent
                               THEN LoadResult(FALSE, FALSE, n.map, n.heap,
                                               Append(loaded, slKey))
                               ELSE LoadLoop(db, Tail(cursor), n.map, n.heap,
                                             Append(loaded, slKey),
                                             NextIteration(intr))
                      ELSE LoadResult(FALSE, FALSE, map, heap, loaded)
             ELSE LoadResult(TRUE, FALSE, map, heap, loaded)

LoadBlockIndexGutsCall(db, map, heap, intr) ==
    LoadLoop(db, Seek(db, <<DB_BLOCK_INDEX>> \o SerUint256(NullHash)), map,
             heap, <<>>, intr)

LoadBlockIndexGuts(intr) ==
    LET r == LoadBlockIndexGutsCall(blocktree, mapBlockIndex, CBlockIndex,
                                    intr)
    IN  /\ mapBlockIndex' = r.map
        /\ CBlockIndex' = r.heap
        /\ TreeOutput("LoadBlockIndexGuts", [intr |-> intr],
                      [blocktree |-> blocktree], r)
        /\ UNCHANGED <<blocktree, chainActive, lastUpd>>

\* Block index entries an earlier run may have left: each entry of the
\* five headers under its own hash; the child (5, 1) under the foreign key
\* 4; a key cut off inside its hash, which sorts between the hashes 3 and
\* 5; the first block with its value cut off.
BlockIndexEntry(hash, hashPrev, nNonce, nHeight) ==
    Entry(<<DB_BLOCK_INDEX>> \o SerUint256(hash), <<hashPrev, nNonce, nHeight>>)

ConsistentBlockIndexPool ==
    { BlockIndexEntry(5, 0, 1, 0), BlockIndexEntry(2, 5, 1, 1),
      BlockIndexEntry(9, 5, 2, 1), BlockIndexEntry(6, 2, 1, 2),
      BlockIndexEntry(3, 7, 1, 4) }

BlockIndexPool ==
    ConsistentBlockIndexPool
    \cup { BlockIndexEntry(4, 5, 1, 1),
           Entry(<<DB_BLOCK_INDEX, 1>>, <<0, 1, 0>>),
           Entry(<<DB_BLOCK_INDEX>> \o SerUint256(5), <<0, 1>>) }

(***************************************************************************)
(* CCoinsViewDB::GetStats.  The hash writer is the sequence of what was    *)
(* fed to it; the summary hash is a collision-free function of it.         *)
(***************************************************************************)
\* CCoinsStats(), and a CCoinsStats that an earlier call has filled
CCoinsStats(nHeight, hashBlock, nTransactions, nTransactionOutputs, nSerializedSize, hashSerialized, nTotalAmount) ==
    [nHeight |-> nHeight, hashBlock |-> hashBlock,
     nTransactions |-> nTransactions,
     nTransactionOutputs |-> nTransactionOutputs,
     nSerializedSize |-> nSerializedSize, hashSerialized |-> hashSerialized,
     nTotalAmount |-> nTotalAmount]

\* CHashWriter::GetHash
WriterHash(ss) == [preimage |-> ss]

\* VARINT(n): the number itself stands for its variable-length bytes.  The
\* loop feeds it i + 1 with i < vout.size(), which an unsigned int holds.
VARINT(n) == n

\* Faulty variant: a null output is fed to the hash like any other.
RECURSIVE Mut_OutputsLoopCountNull(_, _, _)
Mut_OutputsLoopCountNull(acc, coins, i) ==
    IF ~(i < Len(coins)) THEN acc
    ELSE LET txout == coins[i + 1]
         IN  Mut_OutputsLoopCountNull(
                 [nTransactionOutputs |-> acc.nTransactionOutputs + 1,
                  ss |-> acc.ss \o <<VARINT(i + 1), txout>>,
                  nTotalAmount |-> acc.nTotalAmount + txout],
                 coins, i + 1)

\* for (unsigned int i=0; i<coins.vout.size(); i++)
RECURSIVE OutputsLoop(_, _, _)
OutputsLoop(acc, coins, i) ==
    IF ~(i < Len(coins)) THEN acc
    ELSE LET txout == coins[i + 1]
         IN  OutputsLoop(
                 IF txout # NullOut
                 THEN [nTransactionOutputs |-> acc.nTransactionOutputs + 1,
                       ss |-> acc.ss \o <<VARINT(i + 1), txout>>,
                       nTotalAmount |-> acc.nTotalAmount + txout]
                 ELSE acc,
                 coins, i + 1)

StatsResult(r, t, stats, ss, nTotalAmount) ==
    [ret |-> r, threw |-> t, stats |-> stats, ss |-> ss,
     nTotalAmount |-> nTotalAmount, done |-> FALSE]

\* The loop over the keys from the seek position on.
RECURSIVE StatsLoop(_, _, _, _, _, _)
StatsLoop(db, cursor, stats, ss, nTotalAmount, intr) ==
    IF cursor = <<>>
    THEN [StatsResult(TRUE, FALSE, stats, ss, nTotalAmount)
            EXCEPT !.done = TRUE]
    ELSE IF interruption_point(intr)
    THEN StatsResult(FALSE, TRUE, stats, ss, nTotalAmount)
    ELSE LET slKey == Head(cursor)
             key == GetKey(slKey, 1)
         IN  IF key.ok /\ key.first = DB_COINS
             THEN LET v == UnserCoins(db[slKey])
                  IN  IF v.ok
                      THEN LET o == OutputsLoop(
                                  [nTransactionOutputs |->
                                       stats.nTransactionOutputs,
                                   ss |-> ss, nTotalAmount |-> nTotalAmount],
                                  v.coins, 0)
                           IN  StatsLoop(db, Tail(cursor),
                                   [stats EXCEPT
                                      !.nTransactions = @ + 1,
                                      !.nTransactionOutputs =
                                          o.nTransactionOutputs,
                                      !.nSerializedSize =
                                          @ + 32 + Len(db[slKey])],
                                   o.ss \o <<VARINT(0)>>, o.nTotalAmount,
                                   NextIteration(intr))
                      ELSE StatsResult(FALSE, FALSE, stats, ss, nTotalAmount)
             ELSE [StatsResult(TRUE, FALSE, stats, ss, nTotalAmount)
                     EXCEPT !.done = TRUE]

\* mapBlockIndex.find(hash)->second->nHeight is defined when the map has a
\* node for the hash.  Without one the iterator is end() and reading
\* through it is undefined: the call crashes or goes on with whatever the
\* read yields.
HasBlockIndex(map, hash) == hash \in DOMAIN map /\ map[hash] # NULL

UndefinedOutcomes ==
    {[crash |-> TRUE, nHeight |-> 0], [crash |-> FALSE, nHeight |-> -1]}

GetStatsCall(db, map, heap, stats, intr, ub) ==
    LET hashBlock == GetBestBlock(db)
        l == StatsLoop(db, Seek(db, <<DB_COINS>>),
                       [stats EXCEPT !.hashBlock = hashBlock], <<hashBlock>>,
                       0, intr)
        defined == HasBlockIndex(map, hashBlock)
        nHeight == IF defined THEN heap[map[hashBlock]].nHeight
                   ELSE ub.nHeight
    IN  IF ~l.done
        THEN [ret |-> l.ret, threw |-> l.threw,
              out |-> [stats |-> l.stats, ss |-> l.ss, crashed |-> FALSE]]
        ELSE IF ~defined /\ ub.crash
        THEN [ret |-> FALSE, threw |-> FALSE,
              out |-> [stats |-> l.stats, ss |-> l.ss, crashed |-> TRUE]]
        ELSE [ret |-> TRUE, threw |-> FALSE,
              out |-> [stats |-> [l.stats EXCEPT
                                    !.nHeight = nHeight,
                                    !.hashSerialized = WriterHash(l.ss),
                                    !.nTotalAmount = l.nTotalAmount],
                       ss |-> l.ss, crashed |-> FALSE]]

GetStats(stats, intr, ub) ==
    LET r == GetStatsCall(coinsdb, mapBlockIndex, CBlockIndex, stats, intr, ub)
    IN  /\ TreeOutput("GetStats", [stats |-> stats, intr |-> intr],
                      [coinsdb |-> coinsdb, mapBlockIndex |-> mapBlockIndex],
                      r)
        /\ UNCHANGED <<treeVars>>

\* The statistics object handed in: a new one, or one that an earlier
\* call has filled.
StatsObjects ==
    { CCoinsStats(0, NullHash, 0, 0, 0, WriterHash(<<>>), 0),
      CCoinsStats(1, 5, 1, 1, 34, WriterHash(<<5, 1, 5, 0>>), 5) }

\* Coin records an earlier run may have left: transactions 1, 2 and 3,
\* the third with every output spent; transaction 2 with its value cut
\* off before the second output.
CoinsPool ==
    { Entry(<<DB_COINS, 1>>, SerCoins(<<5>>)),
      Entry(<<DB_COINS, 2>>, SerCoins(<<NullOut, 7>>)),
      Entry(<<DB_COINS, 3>>, SerCoins(<<NullOut>>)),
      Entry(<<DB_COINS, 2>>, <<2, NullOut>>) }

\* What shares the chainstate store with the coin records: anchors,
\* nullifiers and the best slots, with the best block 5 or none; two of
\* them agree in the best block and differ in everything else.
CoinsBases ==
    { ApplyBatch(EmptyDB,
          << WriteOp(<<DB_SPROUT_ANCHOR, 3>>, "st0"),
             WriteOp(<<DB_NULLIFIER, 1>>, TRUE) >>),
      ApplyBatch(EmptyDB,
          << WriteOp(<<DB_SAPLING_NULLIFIER, 1>>, TRUE),
             WriteOp(<<DB_BEST_BLOCK>>, 5),
             WriteOp(<<DB_BEST_SAPLING_ANCHOR>>, 1) >>),
      ApplyBatch(EmptyDB,
          << WriteOp(<<DB_SPROUT_ANCHOR, 3>>, "st0"),
             WriteOp(<<DB_BEST_BLOCK>>, 5) >>) }

CoinsScanStores == UNION { StoresOver(base, CoinsPool) : base \in CoinsBases }

\* What shares the blocks/index store with the block index entries.
BlockIndexBase ==
    ApplyBatch(EmptyDB,
        << WriteOp(<<DB_FLAG, 1>>, <<49>>),
           WriteOp(<<DB_BLOCKHASHINDEX, 1>>, <<1>>) >>)

BlockIndexStores == StoresOver(BlockIndexBase, BlockIndexPool)

(***************************************************************************)
(* The five scans on a store as the process found it at startup.  The      *)
(* block index is loaded once, before anything has touched mapBlockIndex.  *)
(***************************************************************************)
InitScan ==
    /\ \/ coinsdb = EmptyDB /\ blocktree \in TreeScanStores \cup BlockIndexStores
       \/ coinsdb \in CoinsScanStores /\ blocktree = OtherEntries
    /\ mapCoins = EmptyMap
    /\ mapSproutAnchors = EmptyMap
    /\ mapSaplingAnchors = EmptyMap
    /\ mapSproutNullifiers = EmptyMap
    /\ mapSaplingNullifiers = EmptyMap
    /\ lastBest = BestOf(coinsdb)
    /\ mapBlockIndex = EmptyMap
    /\ CBlockIndex = EmptyMap
    /\ chainActive = {}
    /\ lastUpd = EmptyMap
    /\ op = "init"
    /\ args = <<>>
    /\ pre = <<>>
    /\ ret = FALSE
    /\ out = <<>>
    /\ threw = FALSE
    /\ batch = <<>>

NextScan ==
    \/ \E addressHash \in {1}, type \in {1}, start \in HeightBounds,
          end \in HeightBounds, intr \in Interruptions :
          ReadAddressIndex(addressHash, type, start, end, intr)
    \/ \E addressHash \in {1}, type \in {1}, intr \in Interruptions :
          ReadAddressUnspentIndex(addressHash, type, intr)
    \/ \E high \in {2, 257}, low \in {1}, fActiveOnly \in BOOLEAN,
          intr \in Interruptions :
          ReadTimestampIndex(high, low, fActiveOnly, intr)
    \/ /\ mapBlockIndex = EmptyMap
       /\ \E intr \in Interruptions : LoadBlockIndexGuts(intr)
    \/ \E stats \in StatsObjects, intr \in Interruptions,
          ub \in UndefinedOutcomes :
          GetStats(stats, intr, ub)

SpecScan == InitScan /\ [][NextScan]_vars

(***************************************************************************)
(* Properties of the index scans on entries that cannot be decoded.        *)
(***************************************************************************)
IndexReaders ==
    {"ReadAddressIndex", "ReadAddressUnspentIndex", "ReadTimestampIndex"}

\* The call `name' with the arguments a on the store db.
IndexScan(name, db, a, map) ==
    IF name = "ReadAddressIndex"
    THEN ReadAddressIndexCall(db, a.addressHash, a.type, a.start, a.end,
                              a.intr)
    ELSE IF name = "ReadAddressUnspentIndex"
    THEN ReadAddressUnspentIndexCall(db, a.addressHash, a.type, a.intr)
    ELSE ReadTimestampIndexCall(db, a.high, a.low, a.fActiveOnly, map,
                                chainActive, a.intr)

SeekKey(name, a) ==
    IF name = "ReadAddressIndex"
    THEN IF a.start > 0 /\ a.end > 0
         THEN <<DB_ADDRESSINDEX>>
              \o SerAddressIndexIteratorHeightKey(a.type, a.addressHash,
                                                  a.start)
         ELSE <<DB_ADDRESSINDEX>>
              \o SerAddressIndexIteratorKey(a.type, a.addressHash)
    ELSE IF name = "ReadAddressUnspentIndex"
    THEN <<DB_ADDRESSUNSPENTINDEX>>
         \o SerAddressIndexIteratorKey(a.type, a.addressHash)
    ELSE <<DB_TIMESTAMPINDEX>> \o SerTimestampIndexIteratorKey(a.low)

KeyTypeOf(name) ==
    IF name = "ReadAddressIndex" THEN "CAddressIndexKey"
    ELSE IF name = "ReadAddressUnspentIndex" THEN "CAddressUnspentKey"
    ELSE "CTimestampIndexKey"

TagOf(name) ==
    IF name = "ReadAddressIndex" THEN DB_ADDRESSINDEX
    ELSE IF name = "ReadAddressUnspentIndex" THEN DB_ADDRESSUNSPENTINDEX
    ELSE DB_TIMESTAMPINDEX

\* The number of fields of a value; ReadTimestampIndex reads no value.
ValueFieldsOf(name) ==
    IF name = "ReadAddressIndex" THEN 1
    ELSE IF name = "ReadAddressUnspentIndex" THEN 2
    ELSE 0

KeyUndecodable(name, slKey) == ~ParseKey(slKey, KeyTypeOf(name)).ok

ValueUndecodable(name, db, slKey) ==
    /\ ~KeyUndecodable(name, slKey)
    /\ ParseKey(slKey, KeyTypeOf(name)).chType = TagOf(name)
    /\ ~ParseValue(db[slKey], ValueFieldsOf(name)).ok

\* The positions, from the seek position on, of the entries that the
\* reader cannot decode.
UndecodableAt(name, db, a) ==
    LET cursor == Seek(db, SeekKey(name, a))
    IN  {i \in 1..Len(cursor) :
            \/ KeyUndecodable(name, cursor[i])
            \/ ValueUndecodable(name, db, cursor[i])}

FirstOf(S) == CHOOSE i \in S : \A j \in S : i <= j

\* The store as it would be if the index ended just before position i.
EndingBefore(db, cursor, i) ==
    [k \in DOMAIN db \ {cursor[j] : j \in i..Len(cursor)} |-> db[k]]

\* The store with the value of one entry made readable.
Repaired(name, db, slKey) ==
    [db EXCEPT ![slKey] = IF ValueFieldsOf(name) = 1 THEN <<5>> ELSE <<5, 1>>]

\* C11 as stated: a scan that meets an entry whose key or value it cannot
\* decode reports what it would report if the index ended just before that
\* entry: success, with the entries gathered so far.
C11_DecodeFailureIsEndOfIndex ==
    (op \in IndexReaders /\ args.intr = 0) =>
        LET bad == UndecodableAt(op, pre.blocktree, args)
            cursor == Seek(pre.blocktree, SeekKey(op, args))
        IN  bad # {} =>
              LET e == IndexScan(op, EndingBefore(pre.blocktree, cursor,
                                                  FirstOf(bad)),
                                 args, pre.mapBlockIndex)
              IN  /\ ~threw
                  /\ ret = e.ret
                  /\ ret = TRUE
                  /\ out = e.out

\* C11 amended: the scan stops at the first entry it cannot decode and its
\* output is the one it would have if the index ended just before that
\* entry.  It reports success when the key cannot be decoded.  When the
\* value of an entry that it would otherwise return cannot be decoded, it
\* returns false.
C11_DecodeFailureStopsScan ==
    (op \in IndexReaders /\ args.intr = 0) =>
        LET bad == UndecodableAt(op, pre.blocktree, args)
            cursor == Seek(pre.blocktree, SeekKey(op, args))
        IN  bad # {} =>
              LET slKey == cursor[FirstOf(bad)]
                  e == IndexScan(op, EndingBefore(pre.blocktree, cursor,
                                                  FirstOf(bad)),
                                 args, pre.mapBlockIndex)
                  r == IndexScan(op, Repaired(op, pre.blocktree, slKey), args,
                                 pre.mapBlockIndex)
                  wanted == \E i \in 1..Len(r.out) :
                               r.out[i][1]
                                 = ParseKey(slKey, KeyTypeOf(op)).key
              IN  /\ ~threw
                  /\ out = e.out
                  /\ KeyUndecodable(op, slKey) => ret = TRUE
                  /\ ValueUndecodable(op, pre.blocktree, slKey) =>
                        (ret = FALSE <=> wanted)

C11_Witness ==
    /\ op = "ReadAddressIndex"
    /\ args.intr = 0
    /\ ret = FALSE
    /\ Len(out) = 1
    /\ LET bad == UndecodableAt(op, pre.blocktree, args)
           cursor == Seek(pre.blocktree, SeekKey(op, args))
       IN  /\ bad # {}
           /\ ValueUndecodable(op, pre.blocktree, cursor[FirstOf(bad)])
           /\ \E j \in 1..Len(cursor) :
                 /\ j > FirstOf(bad)
                 /\ ~KeyUndecodable(op, cursor[j])
                 /\ ParseKey(cursor[j], KeyTypeOf(op)).chType = TagOf(op)

(***************************************************************************)
(* Properties of the block index load.                                     *)
(***************************************************************************)
LoadCursor(db) == Seek(db, <<DB_BLOCK_INDEX>> \o SerUint256(NullHash))

\* The header hash recomputed from the fields stored in the value of slKey.
ValueHash(db, slKey) ==
    DiskGetBlockHash(UnserDiskBlockIndex(db[slKey]).diskindex)

\* The node that the load left for a hash rebuilds to a header of that hash.
NodeChecks(hash) ==
    /\ HasBlockIndex(mapBlockIndex, hash)
    /\ GetHash(GetBlockHeader(CBlockIndex, mapBlockIndex[hash])) = hash

\* C12 as stated: the load returns true only if the header hash recomputed
\* from the value of every scanned entry equals the block hash that is the
\* entry's key in the store.
C12_LoadChecksHashAgainstKey ==
    (op = "LoadBlockIndexGuts" /\ args.intr = 0 /\ ret = TRUE) =>
        \A i \in 1..Len(out) :
            ValueHash(pre.blocktree, out[i]) = GetKey(out[i], 2).second

\* C12 amended: every scanned entry is registered under the header hash
\* recomputed from its value, whatever its key; the load returns true only
\* if every scanned value could be decoded and every node rebuilds to a
\* header of the hash it is registered under, and it returns false when the
\* value of the entry it stopped at cannot be decoded.
C12_LoadChecksNodeHash ==
    (op = "LoadBlockIndexGuts" /\ args.intr = 0) =>
        LET db == pre.blocktree
            cursor == LoadCursor(db)
            stop == Len(out) + 1
            badValue == /\ stop <= Len(cursor)
                        /\ GetKey(cursor[stop], 2).ok
                        /\ GetKey(cursor[stop], 2).first = DB_BLOCK_INDEX
                        /\ ~UnserDiskBlockIndex(db[cursor[stop]]).ok
        IN  /\ ~threw
            /\ out = SubSeq(cursor, 1, Len(out))
            /\ \A i \in 1..Len(out) :
                  /\ UnserDiskBlockIndex(db[out[i]]).ok
                  /\ HasBlockIndex(mapBlockIndex, ValueHash(db, out[i]))
            /\ ret = TRUE =>
                  /\ ~badValue
                  /\ \A i \in 1..Len(out) : NodeChecks(ValueHash(db, out[i]))
            /\ ret = FALSE =>
                  \/ badValue
                  \/ /\ out # <<>>
                     /\ ~NodeChecks(ValueHash(db, out[Len(out)]))
            /\ badValue => ret = FALSE

C12_Witness ==
    /\ op = "LoadBlockIndexGuts"
    /\ args.intr = 0
    /\ ret = TRUE
    /\ \E i \in 1..Len(out) :
          /\ ValueHash(pre.blocktree, out[i]) # GetKey(out[i], 2).second
          /\ NodeChecks(ValueHash(pre.blocktree, out[i]))
          /\ i < Len(out)

\* The block index entries of a store, each as (key hash, disk record).
BlockIndexEntries(db) ==
    {[hash |-> GetKey(k, 2).second,
      diskindex |-> UnserDiskBlockIndex(db[k]).diskindex] :
        k \in {x \in DOMAIN db : x[1] = DB_BLOCK_INDEX}}

\* Every key under the block index tag decodes, every value decodes, and
\* every entry is stored under the hash of its own header.
ConsistentBlockIndex(db) ==
    \A k \in {x \in DOMAIN db : x[1] = DB_BLOCK_INDEX} :
        /\ GetKey(k, 2).ok
        /\ UnserDiskBlockIndex(db[k]).ok
        /\ ValueHash(db, k) = GetKey(k, 2).second

\* C13: from a consistent set of entries the load succeeds and leaves, for
\* every entry, a node under the entry's block hash that carries the
\* entry's fields and whose predecessor link is the node under the entry's
\* previous hash, or no node when that hash is null, wherever parent and
\* child stand in the iteration order.
C13_LoadDeterminism ==
    (/\ op = "LoadBlockIndexGuts"
     /\ args.intr = 0
     /\ ConsistentBlockIndex(pre.blocktree)) =>
        /\ ret = TRUE
        /\ \A e \in BlockIndexEntries(pre.blocktree) :
              /\ HasBlockIndex(mapBlockIndex, e.hash)
              /\ LET node == CBlockIndex[mapBlockIndex[e.hash]]
                 IN  /\ node.nNonce = e.diskindex.nNonce
                     /\ node.nHeight = e.diskindex.nHeight
                     /\ IF e.diskindex.hashPrev = NullHash
                        THEN node.pprev = NULL
                        ELSE /\ HasBlockIndex(mapBlockIndex,
                                              e.diskindex.hashPrev)
                             /\ node.pprev
                                  = mapBlockIndex[e.diskindex.hashPrev]
        /\ DOMAIN mapBlockIndex
             = {e.hash : e \in BlockIndexEntries(pre.blocktree)}
               \cup ({e.diskindex.hashPrev :
                        e \in BlockIndexEntries(pre.blocktree)} \ {NullHash})

\* A parent is loaded between a child of smaller hash and a child of
\* larger hash.
C13_Witness ==
    /\ op = "LoadBlockIndexGuts"
    /\ args.intr = 0
    /\ ConsistentBlockIndex(pre.blocktree)
    /\ ret = TRUE
    /\ \E p \in BlockIndexEntries(pre.blocktree),
          c \in BlockIndexEntries(pre.blocktree),
          d \in BlockIndexEntries(pre.blocktree) :
          /\ c.diskindex.hashPrev = p.hash
          /\ d.diskindex.hashPrev = p.hash
          /\ c.hash < p.hash
          /\ p.hash < d.hash
          /\ CBlockIndex[mapBlockIndex[c.hash]].pprev = mapBlockIndex[p.hash]
          /\ CBlockIndex[mapBlockIndex[d.hash]].pprev = mapBlockIndex[p.hash]

\* The positions, from the seek position on, of the entries inside the
\* block index prefix that the load cannot decode.
UnloadableAt(db) ==
    LET cursor == LoadCursor(db)
    IN  {i \in 1..Len(cursor) :
            /\ cursor[i][1] = DB_BLOCK_INDEX
            /\ \/ ~GetKey(cursor[i], 2).ok
               \/ ~UnserDiskBlockIndex(db[cursor[i]]).ok}

\* C14: the load stops at the first entry of the block index prefix whose
\* key or value cannot be decoded, reports failure, and has processed no
\* entry after it.
C14_LoadStopsOnFirstBadEntry ==
    (op = "LoadBlockIndexGuts" /\ args.intr = 0) =>
        LET bad == UnloadableAt(pre.blocktree)
            cursor == LoadCursor(pre.blocktree)
        IN  bad # {} =>
              /\ ret = FALSE
              /\ out = SubSeq(cursor, 1, FirstOf(bad) - 1)

(***************************************************************************)
(* CBlockTreeDB point writers: flags, transaction positions, the block     *)
(* hash to logical timestamp index, block files and block index records.   *)
(***************************************************************************)
\* History of the entities committed to the blocks/index store, per
\* entity type and identifying payload.
Committed(hist, w, entity, payload, value) ==
    IF w.ret THEN MapPut(hist, <<entity, payload>>, value) ELSE hist

\* CDiskBlockIndex(pindex) as it is serialized
CDiskBlockIndex(heap, pindex) ==
    << IF heap[pindex].pprev # NULL
       THEN GetBlockHash(heap[pindex].pprev) ELSE NullHash,
       heap[pindex].nNonce, heap[pindex].nHeight >>

WriteReindexing(fReindexing, ok) ==
    LET w == WriteBatch(blocktree,
                 IF fReindexing THEN <<WriteOp(<<DB_REINDEX_FLAG>>, <<49>>)>>
                 ELSE <<EraseOp(<<DB_REINDEX_FLAG>>)>>, ok)
    IN  /\ blocktree' = w.db
        /\ lastUpd' = IF ~w.ret THEN lastUpd
                      ELSE IF fReindexing
                      THEN MapPut(lastUpd, <<"Reindexing", 0>>, <<49>>)
                      ELSE MapErase(lastUpd, <<"Reindexing", 0>>)
        /\ TreeOutput("WriteReindexing", [fReindexing |-> fReindexing],
                      <<>>, Returned(w.ret, <<>>))
        /\ UNCHANGED <<mapBlockIndex, CBlockIndex, chainActive>>

\* Faulty variant: the flag is stored as the character '1' whatever its
\* value.
Mut_WriteFlagAlwaysSet(name, fValue, ok) ==
    LET value == <<49>>
        w == WriteBatch(blocktree, <<WriteOp(<<DB_FLAG, name>>, value)>>, ok)
    IN  /\ blocktree' = w.db
        /\ lastUpd' = Committed(lastUpd, w, "Flag", name, value)
        /\ TreeOutput("WriteFlag", [name |-> name, fValue |-> fValue], <<>>,
                      Returned(w.ret, <<>>))
        /\ UNCHANGED <<mapBlockIndex, CBlockIndex, chainActive>>

WriteFlag(name, fValue, ok) ==
    LET value == <<IF fValue THEN 49 ELSE 48>>
        w == WriteBatch(blocktree, <<WriteOp(<<DB_FLAG, name>>, value)>>, ok)
    IN  /\ blocktree' = w.db
        /\ lastUpd' = Committed(lastUpd, w, "Flag", name, value)
        /\ TreeOutput("WriteFlag", [name |-> name, fValue |-> fValue], <<>>,
                      Returned(w.ret, <<>>))
        /\ UNCHANGED <<mapBlockIndex, CBlockIndex, chainActive>>

ReadReindexing(db, fReindexing) ==
    [ret |-> TRUE, fReindexing |-> Exists(db, <<DB_REINDEX_FLAG>>)]

\* ReadFlag: the stored character is compared with '1'; without the key
\* the caller's fValue is left as it is.
ReadFlag(db, name, fValue) ==
    LET r == Read(db, <<DB_FLAG, name>>, <<>>)
    IN  IF ~r.found THEN [ret |-> FALSE, fValue |-> fValue]
        ELSE [ret |-> TRUE, fValue |-> r.value[1] = 49]

RECURSIVE TxIndexBatch(_)
TxIndexBatch(vect) ==
    IF vect = <<>> THEN <<>>
    ELSE <<WriteOp(<<DB_TXINDEX, Head(vect)[1]>>, Head(vect)[2])>>
         \o TxIndexBatch(Tail(vect))

RECURSIVE CommittedAll(_, _, _)
CommittedAll(hist, entity, pairs) ==
    IF pairs = <<>> THEN hist
    ELSE CommittedAll(MapPut(hist, <<entity, Head(pairs)[1]>>, Head(pairs)[2]),
                      entity, Tail(pairs))

WriteTxIndex(vect, ok) ==
    LET w == WriteBatch(blocktree, TxIndexBatch(vect), ok)
    IN  /\ blocktree' = w.db
        /\ lastUpd' = IF w.ret THEN CommittedAll(lastUpd, "TxIndex", vect)
                      ELSE lastUpd
        /\ TreeReturn("WriteTxIndex", w.ret)
        /\ UNCHANGED <<mapBlockIndex, CBlockIndex, chainActive>>

WriteTimestampBlockIndex(blockhashIndex, logicalts, ok) ==
    LET w == WriteBatch(blocktree,
                 <<WriteOp(<<DB_BLOCKHASHINDEX, blockhashIndex>>,
                           <<logicalts>>)>>, ok)
    IN  /\ blocktree' = w.db
        /\ lastUpd' = Committed(lastUpd, w, "BlockHashIndex", blockhashIndex,
                                <<logicalts>>)
        /\ TreeReturn("WriteTimestampBlockIndex", w.ret)
        /\ UNCHANGED <<mapBlockIndex, CBlockIndex, chainActive>>

RECURSIVE BlockFilesBatch(_)
BlockFilesBatch(fileInfo) ==
    IF fileInfo = <<>> THEN <<>>
    ELSE <<WriteOp(<<DB_BLOCK_FILES>> \o LE32(Head(fileInfo)[1]),
                   Head(fileInfo)[2])>>
         \o BlockFilesBatch(Tail(fileInfo))

RECURSIVE BlockIndexBatch(_, _)
BlockIndexBatch(heap, blockinfo) ==
    IF blockinfo = <<>> THEN <<>>
    ELSE <<WriteOp(<<DB_BLOCK_INDEX>>
                   \o SerUint256(GetBlockHash(Head(blockinfo))),
                   CDiskBlockIndex(heap, Head(blockinfo)))>>
         \o BlockIndexBatch(heap, Tail(blockinfo))

\* Faulty variant: the last file number is written only along with file
\* or block records.
Mut_WriteBatchSyncBatchSkipsLast(heap, fileInfo, nLastFile, blockinfo) ==
    BlockFilesBatch(fileInfo)
    \o (IF fileInfo = <<>> /\ blockinfo = <<>> THEN <<>>
        ELSE <<WriteOp(<<DB_LAST_BLOCK>>, LE32(nLastFile))>>)
    \o BlockIndexBatch(heap, blockinfo)

\* The batch of WriteBatchSync: file records, the last file number, then
\* the block index records, in this order.
WriteBatchSyncBatch(heap, fileInfo, nLastFile, blockinfo) ==
    BlockFilesBatch(fileInfo)
    \o <<WriteOp(<<DB_LAST_BLOCK>>, LE32(nLastFile))>>
    \o BlockIndexBatch(heap, blockinfo)

\* The point readers of the block file records; a reader that finds no
\* key leaves the caller's output as it is.
ReadBlockFileInfo(db, nFile, info) ==
    LET r == Read(db, <<DB_BLOCK_FILES>> \o LE32(nFile), info)
    IN  [ret |-> r.found, info |-> r.value]

ReadLastBlockFile(db, nFile) ==
    LET r == Read(db, <<DB_LAST_BLOCK>>, LE32(nFile))
    IN  [ret |-> r.found, nFile |-> FromLE32(r.value)]

WriteBatchSync(fileInfo, nLastFile, blockinfo, ok) ==
    LET b == WriteBatchSyncBatch(CBlockIndex, fileInfo, nLastFile, blockinfo)
        w == WriteBatch(blocktree, b, ok)
        disk == [i \in 1..Len(blockinfo) |->
                    <<GetBlockHash(blockinfo[i]),
                      CDiskBlockIndex(CBlockIndex, blockinfo[i])>>]
    IN  /\ blocktree' = w.db
        /\ lastUpd' = IF ~w.ret THEN lastUpd
                      ELSE CommittedAll(
                             MapPut(CommittedAll(lastUpd, "BlockFiles",
                                                 fileInfo),
                                    <<"LastBlock", 0>>, LE32(nLastFile)),
                             "BlockIndex", disk)
        /\ TreeOutput("WriteBatchSync",
                      [fileInfo |-> fileInfo, nLastFile |-> nLastFile,
                       blockinfo |-> blockinfo],
                      <<>>, Returned(w.ret, <<>>))
        /\ UNCHANGED <<mapBlockIndex, CBlockIndex, chainActive>>

\* The arguments of the point writers. Flag names, transaction ids, block
\* hashes and file numbers are drawn from the same symbols, so that keys
\* of different entity types differ in nothing but their tag.
FlagNames == {1, 2}
TxIndexVects == {<<>>, <<<<1, <<0, 1, 0>>>>>>,
                 <<<<1, <<0, 2, 0>>>>, <<2, <<0, 2, 0>>>>>>}
FileInfoVects == {<<>>, <<<<1, <<1, 9>>>>>>, <<<<1, <<2, 9>>>>>>}
LastFiles == {0, 1}
BlockInfoVects == {<<>>, <<1>>, <<2, 1>>}

InitTags ==
    /\ coinsdb = EmptyDB
    /\ mapCoins = EmptyMap
    /\ mapSproutAnchors = EmptyMap
    /\ mapSaplingAnchors = EmptyMap
    /\ mapSproutNullifiers = EmptyMap
    /\ mapSaplingNullifiers = EmptyMap
    /\ lastBest = BestOf(coinsdb)
    /\ blocktree = EmptyDB
    /\ lastUpd = EmptyMap
    /\ mapBlockIndex = MapPut(MapPut(EmptyMap, 1, 1), 2, 2)
    /\ CBlockIndex = MapPut(MapPut(EmptyMap, 1,
                                   [pprev |-> NULL, nNonce |-> 1,
                                    nHeight |-> 0]),
                            2, [pprev |-> 1, nNonce |-> 1, nHeight |-> 1])
    /\ chainActive = {1, 2}
    /\ op = "init"
    /\ args = <<>>
    /\ pre = <<>>
    /\ ret = FALSE
    /\ out = <<>>
    /\ threw = FALSE
    /\ batch = <<>>

NextTags ==
    \/ \E fReindexing \in BOOLEAN, ok \in BOOLEAN :
          WriteReindexing(fReindexing, ok)
    \/ \E name \in FlagNames, fValue \in BOOLEAN, ok \in BOOLEAN :
          WriteFlag(name, fValue, ok)
    \/ \E vect \in TxIndexVects, ok \in BOOLEAN : WriteTxIndex(vect, ok)
    \/ \E hash \in {1}, lts \in {1}, ok \in BOOLEAN :
          WriteTimestampBlockIndex(hash, lts, ok)
    \/ \E fileInfo \in FileInfoVects, nLastFile \in LastFiles,
          blockinfo \in BlockInfoVects, ok \in BOOLEAN :
          WriteBatchSync(fileInfo, nLastFile, blockinfo, ok)

SpecTags == InitTags /\ [][NextTags]_vars

(***************************************************************************)
(* C15: key tags keep the entity types of a store apart.                   *)
(***************************************************************************)
\* The tags in use in each of the two stores.
CoinsViewTags ==
    [Coins |-> DB_COINS, SproutAnchor |-> DB_SPROUT_ANCHOR,
     SaplingAnchor |-> DB_SAPLING_ANCHOR, SproutNullifier |-> DB_NULLIFIER,
     SaplingNullifier |-> DB_SAPLING_NULLIFIER, BestBlock |-> DB_BEST_BLOCK,
     BestSproutAnchor |-> DB_BEST_SPROUT_ANCHOR,
     BestSaplingAnchor |-> DB_BEST_SAPLING_ANCHOR]

BlockTreeTags ==
    [BlockFiles |-> DB_BLOCK_FILES, TxIndex |-> DB_TXINDEX,
     AddressIndex |-> DB_ADDRESSINDEX,
     AddressUnspentIndex |-> DB_ADDRESSUNSPENTINDEX,
     TimestampIndex |-> DB_TIMESTAMPINDEX,
     BlockHashIndex |-> DB_BLOCKHASHINDEX, SpentIndex |-> DB_SPENTINDEX,
     BlockIndex |-> DB_BLOCK_INDEX, Flag |-> DB_FLAG,
     Reindexing |-> DB_REINDEX_FLAG, LastBlock |-> DB_LAST_BLOCK]

Injective(f) == \A x, y \in DOMAIN f : f[x] = f[y] => x = y

\* The key an entity of the blocks/index store is stored under.
EntityKey(entity, payload) ==
    CASE entity = "Reindexing" -> <<DB_REINDEX_FLAG>>
      [] entity = "LastBlock" -> <<DB_LAST_BLOCK>>
      [] entity = "Flag" -> <<DB_FLAG, payload>>
      [] entity = "TxIndex" -> <<DB_TXINDEX, payload>>
      [] entity = "BlockHashIndex" -> <<DB_BLOCKHASHINDEX, payload>>
      [] entity = "BlockFiles" -> <<DB_BLOCK_FILES>> \o LE32(payload)
      [] entity = "BlockIndex" -> <<DB_BLOCK_INDEX>> \o SerUint256(payload)

\* C15: the tags of one store are pairwise distinct, so an entity written
\* under one tag is never overwritten by, or read back as, an entity of
\* another type with the same payload: every committed entity is still
\* stored with the value last committed for it, and every key of the store
\* carries the tag of the one entity it was written for.
C15_TagsSeparateEntityTypes ==
    /\ Injective(CoinsViewTags)
    /\ Injective(BlockTreeTags)
    /\ \A h \in DOMAIN lastUpd :
          /\ Exists(blocktree, EntityKey(h[1], h[2]))
          /\ blocktree[EntityKey(h[1], h[2])] = lastUpd[h]
    /\ \A k \in DOMAIN blocktree :
          \E h \in DOMAIN lastUpd :
             /\ k = EntityKey(h[1], h[2])
             /\ k[1] = BlockTreeTags[h[1]]
             /\ \A g \in DOMAIN lastUpd : k = EntityKey(g[1], g[2]) => g = h

\* A flag, a transaction position, a block timestamp, a file record and a
\* block index record, all of payload 1, are stored side by side.
C15_Witness ==
    /\ {<<"Flag", 1>>, <<"TxIndex", 1>>, <<"BlockHashIndex", 1>>,
        <<"BlockFiles", 1>>, <<"BlockIndex", 1>>, <<"LastBlock", 0>>,
        <<"Reindexing", 0>>} \subseteq DOMAIN lastUpd
    /\ lastUpd[<<"Flag", 1>>] # lastUpd[<<"BlockHashIndex", 1>>]
    /\ op = "WriteTxIndex" /\ ret

(***************************************************************************)
(* C16: result of the flush, and the state a failed commit leaves.         *)
(***************************************************************************)
AllDrained ==
    /\ mapCoins = EmptyMap
    /\ mapSproutAnchors = EmptyMap
    /\ mapSaplingAnchors = EmptyMap
    /\ mapSproutNullifiers = EmptyMap
    /\ mapSaplingNullifiers = EmptyMap

\* C16: BatchWrite returns true exactly when the engine's atomic commit
\* succeeded; after a failed commit it has returned false, the persisted
\* store is what it was before the call (nothing was retried), and the
\* delta maps are drained all the same.
C16_FlushResultAndFailureState ==
    op = "BatchWrite" =>
        /\ ret = out.commit
        /\ ret => coinsdb = ApplyBatch(pre.coinsdb, batch)
        /\ ~out.commit => /\ ~ret
                          /\ coinsdb = pre.coinsdb
                          /\ AllDrained

\* A flush of a delta that would have changed the store fails.
C16_Witness ==
    /\ op = "BatchWrite"
    /\ ~out.commit
    /\ ~ret
    /\ batch # <<>>
    /\ ApplyBatch(pre.coinsdb, batch) # pre.coinsdb
    /\ pre.mapCoins # EmptyMap
    /\ pre.mapSproutNullifiers # EmptyMap

(***************************************************************************)
(* C17: the nullifier namespaces of the two shielded pools.                *)
(***************************************************************************)
\* A value of the ShieldedType enum other than SPROUT and SAPLING.
UnknownShieldedTypes == {"UNKNOWN"}

\* What a flush makes of the answer for nf: the entered bit of a DIRTY
\* entry of a committed delta, the answer before the flush otherwise.
NullifierAfterFlush(m, type, nf) ==
    IF ret /\ nf \in DOMAIN m /\ "DIRTY" \in m[nf].flags
    THEN m[nf].entered
    ELSE GetNullifier(pre.coinsdb, nf, type).ret

\* C17: after a flush GetNullifier(nf, SPROUT) answers with the entered bit
\* of the DIRTY Sprout entry committed for nf, and with its earlier answer
\* when none was committed; likewise SAPLING with the Sapling delta, so a
\* nullifier flushed in one pool leaves the other pool's answer for the same
\* hash alone.  With any other pool selector GetNullifier and GetBestAnchor
\* throw.
C17_NullifierNamespaces ==
    op = "BatchWrite" =>
        /\ \A nf \in Nullifiers :
              /\ ~GetNullifier(coinsdb, nf, "SPROUT").threw
              /\ ~GetNullifier(coinsdb, nf, "SAPLING").threw
              /\ GetNullifier(coinsdb, nf, "SPROUT").ret
                   = NullifierAfterFlush(pre.mapSproutNullifiers, "SPROUT", nf)
              /\ GetNullifier(coinsdb, nf, "SAPLING").ret
                   = NullifierAfterFlush(pre.mapSaplingNullifiers, "SAPLING",
                                         nf)
              /\ \A type \in UnknownShieldedTypes :
                    GetNullifier(coinsdb, nf, type).threw
        /\ \A type \in UnknownShieldedTypes :
              GetBestAnchor(coinsdb, type).threw

\* A committed flush enters a nullifier in the Sapling pool only; the
\* Sprout pool does not know the same hash before or after.
C17_Witness ==
    /\ op = "BatchWrite" /\ ret
    /\ \E nf \in DOMAIN pre.mapSaplingNullifiers :
          /\ "DIRTY" \in pre.mapSaplingNullifiers[nf].flags
          /\ pre.mapSaplingNullifiers[nf].entered
          /\ nf \notin DOMAIN pre.mapSproutNullifiers
          /\ ~GetNullifier(pre.coinsdb, nf, "SAPLING").ret
          /\ GetNullifier(coinsdb, nf, "SAPLING").ret
          /\ ~GetNullifier(coinsdb, nf, "SPROUT").ret

(***************************************************************************)
(* C18: what the getters return for a best slot that was never set.        *)
(***************************************************************************)
UnsetSlotDefaults ==
    /\ IsNull(lastBest.block) => GetBestBlock(coinsdb) = NullHash
    /\ IsNull(lastBest.sprout) =>
          GetBestAnchor(coinsdb, "SPROUT").hash = SproutEmptyRoot
    /\ IsNull(lastBest.sapling) =>
          GetBestAnchor(coinsdb, "SAPLING").hash = SaplingEmptyRoot

\* C18 as stated: a slot no flush has set reads as its default (the zero
\* hash, the Sprout empty root, the Sapling empty root), and a slot that a
\* committed flush has set to a non-null value never reads as its default
\* again.
C18_DefaultNeverReturnedAgain ==
    /\ UnsetSlotDefaults
    /\ ~IsNull(lastBest.block) => GetBestBlock(coinsdb) # NullHash
    /\ ~IsNull(lastBest.sprout) =>
          GetBestAnchor(coinsdb, "SPROUT").hash # SproutEmptyRoot
    /\ ~IsNull(lastBest.sapling) =>
          GetBestAnchor(coinsdb, "SAPLING").hash # SaplingEmptyRoot

\* C18, amended: a slot no flush has set reads as its default; a slot that
\* a committed flush has set to a non-null value is stored from then on, the
\* getter no longer falls back, and it reads as the default exactly when
\* the value last committed is that constant (never for the best block,
\* whose default is the null hash).
C18_UnsetBestSlotDefaults ==
    /\ UnsetSlotDefaults
    /\ ~IsNull(lastBest.block) <=> Exists(coinsdb, <<DB_BEST_BLOCK>>)
    /\ ~IsNull(lastBest.sprout) <=> Exists(coinsdb, <<DB_BEST_SPROUT_ANCHOR>>)
    /\ ~IsNull(lastBest.sapling)
         <=> Exists(coinsdb, <<DB_BEST_SAPLING_ANCHOR>>)
    /\ ~IsNull(lastBest.block) => GetBestBlock(coinsdb) # NullHash
    /\ ~IsNull(lastBest.sprout) =>
          (GetBestAnchor(coinsdb, "SPROUT").hash = SproutEmptyRoot
           <=> lastBest.sprout = SproutEmptyRoot)
    /\ ~IsNull(lastBest.sapling) =>
          (GetBestAnchor(coinsdb, "SAPLING").hash = SaplingEmptyRoot
           <=> lastBest.sapling = SaplingEmptyRoot)

\* The Sprout slot was set to the Sprout empty root itself and reads as it,
\* the block slot was set, the Sapling slot is still unset.
C18_Witness ==
    /\ op = "BatchWrite" /\ ret
    /\ args.hashSproutAnchor = SproutEmptyRoot
    /\ Exists(coinsdb, <<DB_BEST_SPROUT_ANCHOR>>)
    /\ GetBestAnchor(coinsdb, "SPROUT").hash = SproutEmptyRoot
    /\ ~IsNull(lastBest.block)
    /\ IsNull(lastBest.sapling)
    /\ ~Exists(coinsdb, <<DB_BEST_SAPLING_ANCHOR>>)
    /\ GetBestAnchor(coinsdb, "SAPLING").hash = SaplingEmptyRoot

(***************************************************************************)
(* C19: what GetStats feeds to its hash, and what the summary depends on.  *)
(***************************************************************************)
\* The coin records of a store, by transaction id.
CoinRecords(db) ==
    [txid \in {k[2] : k \in EntriesOf(db, DB_COINS)} |->
        UnserCoins(db[<<DB_COINS, txid>>]).coins]

\* The non-null outputs of a record with their positions, counted from 1.
UnspentOutputs(coins) ==
    {<<n, coins[n]>> : n \in {m \in 1..Len(coins) : coins[m] # NullOut}}

RECURSIVE RecordStream(_, _)
RecordStream(coins, n) ==
    IF n > Len(coins) THEN <<0>>
    ELSE (IF coins[n] = NullOut THEN <<>> ELSE <<n, coins[n]>>)
         \o RecordStream(coins, n + 1)

RECURSIVE RecordsStream(_, _)
RecordsStream(records, txids) ==
    IF txids = <<>> THEN <<>>
    ELSE RecordStream(records[Head(txids)], 1)
         \o RecordsStream(records, Tail(txids))

\* The stream the claim describes for a best block and a set of records.
HashStream(hashBlock, records) ==
    <<hashBlock>> \o RecordsStream(records, SortInts(DOMAIN records))

RECURSIVE SumOf(_)
SumOf(S) ==
    IF S = {} THEN 0
    ELSE LET x == CHOOSE y \in S : TRUE IN x[3] + SumOf(S \ {x})

AllUnspent(records) ==
    UNION {{<<txid, o[1], o[2]>> : o \in UnspentOutputs(records[txid])} :
             txid \in DOMAIN records}

\* Reading a stream back: after the block hash, pairs of index and output
\* up to an index of 0, record after record.
RECURSIVE ParseRecords(_, _)
ParseRecords(ss, current) ==
    IF ss = <<>> THEN <<>>
    ELSE IF Head(ss) = 0 THEN <<current>> \o ParseRecords(Tail(ss), {})
    ELSE ParseRecords(Tail(Tail(ss)), current \cup {<<ss[1], ss[2]>>})

\* C19: a successful GetStats has fed its hash the best block hash, then
\* for each coin record in key order the pairs (i+1, output) of its
\* non-null outputs and a closing 0; the summary hash is the hash of that
\* stream, the output count grows by the number of non-null outputs and
\* the total is their sum.  No index in the stream is 0, so the stream
\* reads back as the records' unspent outputs, and any store with the same
\* best block and the same coin records yields the same hash, count and
\* total.
C19_StatsHashStream ==
    (op = "GetStats" /\ ret) =>
        LET db == pre.coinsdb
            records == CoinRecords(db)
            order == SortInts(DOMAIN records)
        IN  /\ out.ss = HashStream(GetBestBlock(db), records)
            /\ out.stats.hashBlock = GetBestBlock(db)
            /\ out.stats.hashSerialized = WriterHash(out.ss)
            /\ out.stats.nTransactions
                 = args.stats.nTransactions + Cardinality(DOMAIN records)
            /\ out.stats.nTransactionOutputs
                 = args.stats.nTransactionOutputs
                   + Cardinality(AllUnspent(records))
            /\ out.stats.nTotalAmount = SumOf(AllUnspent(records))
            /\ ParseRecords(Tail(out.ss), {})
                 = [n \in 1..Len(order) |-> UnspentOutputs(records[order[n]])]
            /\ \A other \in CoinsScanStores, ub \in UndefinedOutcomes :
                  LET r == GetStatsCall(other, pre.mapBlockIndex, CBlockIndex,
                                        args.stats, 0, ub)
                  IN  (/\ GetBestBlock(other) = GetBestBlock(db)
                       /\ EntriesOf(other, DB_COINS) = EntriesOf(db, DB_COINS)
                       /\ \A k \in EntriesOf(db, DB_COINS) :
                             other[k] = db[k]
                       /\ r.ret)
                      => /\ r.out.stats.hashSerialized
                              = out.stats.hashSerialized
                         /\ r.out.stats.nTransactionOutputs
                              = out.stats.nTransactionOutputs
                         /\ r.out.stats.nTotalAmount
                              = out.stats.nTotalAmount

\* Statistics of a store with best block 5 and two records, the second
\* beginning with a spent output; another store with other anchors and
\* nullifiers has the same best block and records.
C19_Witness ==
    /\ op = "GetStats" /\ ret
    /\ HasBlockIndex(pre.mapBlockIndex, GetBestBlock(pre.coinsdb))
    /\ out.ss = <<5, 1, 5, 0, 2, 7, 0>>
    /\ out.stats.nTransactionOutputs = args.stats.nTransactionOutputs + 2
    /\ out.stats.nTotalAmount = 12
    /\ \E other \in CoinsScanStores :
          /\ other # pre.coinsdb
          /\ GetBestBlock(other) = GetBestBlock(pre.coinsdb)
          /\ EntriesOf(other, DB_COINS) = EntriesOf(pre.coinsdb, DB_COINS)
          /\ \A k \in EntriesOf(other, DB_COINS) : other[k] = pre.coinsdb[k]

(***************************************************************************)
(* C20: the scans write nothing and can be cancelled between entries.      *)
(***************************************************************************)
ScanNames == IndexReaders \cup {"LoadBlockIndexGuts", "GetStats"}

\* The keys a scan is positioned on, from its seek position on.
ScanCursor(name, a) ==
    IF name \in IndexReaders THEN Seek(blocktree, SeekKey(name, a))
    ELSE IF name = "LoadBlockIndexGuts" THEN LoadCursor(blocktree)
    ELSE Seek(coinsdb, <<DB_COINS>>)

\* What the caller can see of a scan: its output parameter and, for the
\* block index load, the nodes it has created.
Seen(name, o, map, heap) ==
    IF name = "LoadBlockIndexGuts" THEN <<o, map, heap>>
    ELSE IF name = "GetStats"
    THEN [ss |-> o.ss, nTransactions |-> o.stats.nTransactions,
          nTransactionOutputs |-> o.stats.nTransactionOutputs,
          nSerializedSize |-> o.stats.nSerializedSize]
    ELSE o

\* The scan `name' in the present state, never cancelled, with its store
\* ending just before position i of the cursor.
ScanBefore(name, a, cursor, i, ub) ==
    IF name \in IndexReaders
    THEN LET r == IndexScan(name, EndingBefore(blocktree, cursor, i),
                            [a EXCEPT !.intr = 0], mapBlockIndex)
         IN  [ret |-> r.ret, out |-> r.out, seen |-> r.out]
    ELSE IF name = "LoadBlockIndexGuts"
    THEN LET r == LoadBlockIndexGutsCall(
                      EndingBefore(blocktree, cursor, i), mapBlockIndex,
                      CBlockIndex, 0)
         IN  [ret |-> r.ret, out |-> r.out,
              seen |-> Seen(name, r.out, r.map, r.heap)]
    ELSE LET r == GetStatsCall(EndingBefore(coinsdb, cursor, i),
                               mapBlockIndex, CBlockIndex, a.stats, 0, ub)
         IN  [ret |-> r.ret, out |-> r.out,
              seen |-> Seen(name, r.out, mapBlockIndex, CBlockIndex)]

\* A step of a scan called with the arguments a that has returned r, or
\* thrown (t), leaving o in its output.
ScanStep(name, a, r, t, o, map, heap) ==
    LET cursor == ScanCursor(name, a)
        whole == Len(cursor) + 1
    IN  /\ a.intr = 0 => ~t
        /\ (a.intr = 1 /\ cursor # <<>>) => t
        /\ t => /\ a.intr \in 1..Len(cursor)
                /\ \E ub \in UndefinedOutcomes :
                      Seen(name, o, map, heap)
                        = ScanBefore(name, a, cursor, a.intr, ub).seen
        /\ ~t => \E ub \in UndefinedOutcomes :
                    LET f == ScanBefore(name, a, cursor, whole, ub)
                    IN  r = f.ret /\ o = f.out

\* C20: a step of GetStats, ReadAddressUnspentIndex, ReadAddressIndex,
\* ReadTimestampIndex or LoadBlockIndexGuts leaves both persisted stores as
\* they were, whether it completes, stops at a malformed entry or is
\* cancelled.  A cancellation pending at iteration n takes effect before
\* entry n is looked at: the scan leaves by the exception with what the
\* entries before n have given, and a scan that ends before iteration n is
\* not affected.
C20_ScansReadOnlyAndCancellable ==
    [][op' \in ScanNames =>
          /\ coinsdb' = coinsdb
          /\ blocktree' = blocktree
          /\ ScanStep(op', args', ret', threw', out', mapBlockIndex',
                      CBlockIndex')]_vars

\* The block index load is cancelled at its second entry: the node of the
\* first entry is there, the store is as it was.
C20_Witness ==
    /\ op = "LoadBlockIndexGuts"
    /\ threw
    /\ args.intr = 2
    /\ Len(LoadCursor(pre.blocktree)) >= 2
    /\ mapBlockIndex # EmptyMap
    /\ blocktree = pre.blocktree

(***************************************************************************)
(* C21: the empty-root anchor key and the batch of a flush.                *)
(***************************************************************************)
\* C21: the batch that BatchWrite has built holds no operation, put or
\* delete, on the empty-root anchor key of either tree type.
C21_EmptyRootNeverInBatch ==
    op = "BatchWrite" =>
        \A i \in 1..Len(batch) : batch[i].key \notin EmptyRootKeys

(***************************************************************************)
(* C22: the active-chain filter and the in-memory block index map.         *)
(***************************************************************************)
\* C22: ReadTimestampIndex with fActiveOnly set leaves mapBlockIndex with
\* the keys and nodes it had before the call, and returns no entry of a
\* block hash that the map did not know.
C22_ActiveFilterLeavesBlockIndex ==
    (op = "ReadTimestampIndex" /\ args.fActiveOnly) =>
        /\ DOMAIN mapBlockIndex = DOMAIN pre.mapBlockIndex
        /\ mapBlockIndex = pre.mapBlockIndex
        /\ \A i \in 1..Len(out) : out[i][1] \in DOMAIN pre.mapBlockIndex

(***************************************************************************)
(* C23: the batched write of block files, last file and block index.       *)
(***************************************************************************)
\* The record that the last entry of fileInfo for the file n carries.
LastInfoFor(fileInfo, n) ==
    LET S == {i \in 1..Len(fileInfo) : fileInfo[i][1] = n}
    IN  fileInfo[CHOOSE i \in S : \A j \in S : j <= i][2]

\* The outcome r of WriteBatchSync called with a on the store db0, which it
\* left as db1.
BatchSyncEffect(a, r, db0, db1, heap) ==
    /\ r => /\ ReadLastBlockFile(db1, 7) = [ret |-> TRUE, nFile |-> a.nLastFile]
            /\ \A i \in 1..Len(a.fileInfo) :
                  ReadBlockFileInfo(db1, a.fileInfo[i][1], <<>>)
                    = [ret |-> TRUE,
                       info |-> LastInfoFor(a.fileInfo, a.fileInfo[i][1])]
            /\ \A i \in 1..Len(a.blockinfo) :
                  LET key == <<DB_BLOCK_INDEX>>
                             \o SerUint256(GetBlockHash(a.blockinfo[i]))
                  IN  /\ Exists(db1, key)
                      /\ db1[key] = CDiskBlockIndex(heap, a.blockinfo[i])
    /\ ~r => db1 = db0

\* C23: after a successful WriteBatchSync(fileInfo, nLastFile, blockinfo)
\* ReadLastBlockFile yields nLastFile, also when both lists are empty,
\* ReadBlockFileInfo yields the record given for each listed file and each
\* listed block has its entry under its hash; a failed call leaves the
\* store as it was, with none of the three groups visible.
C23_MetadataBatchedWrite ==
    [][op' = "WriteBatchSync" =>
          BatchSyncEffect(args', ret', blocktree, blocktree', CBlockIndex)]_vars

\* A call with both lists empty replaces the last file number of a store
\* that holds file and block records of earlier calls.
C23_Witness ==
    /\ op = "WriteBatchSync" /\ ret
    /\ args.fileInfo = <<>> /\ args.blockinfo = <<>>
    /\ args.nLastFile = 1
    /\ ReadLastBlockFile(blocktree, 7).nFile = 1
    /\ ReadBlockFileInfo(blocktree, 1, <<>>).ret
    /\ Exists(blocktree, <<DB_BLOCK_INDEX>> \o SerUint256(2))

(***************************************************************************)
(* C24: the reindexing flag and the named flags read back as written.      *)
(***************************************************************************)
FlagsAsBefore(db0, db1, names) ==
    \A name \in names, x \in BOOLEAN :
        ReadFlag(db1, name, x) = ReadFlag(db0, name, x)

\* What the flag readers report in a state with the history hist.
FlagsOfHistory(db, hist) ==
    /\ \A x \in BOOLEAN :
          ReadReindexing(db, x)
            = [ret |-> TRUE,
               fReindexing |-> <<"Reindexing", 0>> \in DOMAIN hist]
    /\ \A name \in FlagNames, x \in BOOLEAN :
          IF <<"Flag", name>> \in DOMAIN hist
          THEN ReadFlag(db, name, x).ret
          ELSE ReadFlag(db, name, x) = [ret |-> FALSE, fValue |-> x]

WriteFlagEffect(a, r, db0, db1) ==
    /\ r => /\ \A x \in BOOLEAN :
                  ReadFlag(db1, a.name, x) = [ret |-> TRUE, fValue |-> a.fValue]
            /\ FlagsAsBefore(db0, db1, FlagNames \ {a.name})
    /\ ~r => FlagsAsBefore(db0, db1, FlagNames)
    /\ ReadReindexing(db1, FALSE) = ReadReindexing(db0, FALSE)

WriteReindexingEffect(a, r, db0, db1) ==
    /\ ReadReindexing(db1, ~a.fReindexing)
         = [ret |-> TRUE,
            fReindexing |-> IF r THEN a.fReindexing
                            ELSE ReadReindexing(db0, FALSE).fReindexing]
    /\ FlagsAsBefore(db0, db1, FlagNames)

\* C24: ReadReindexing always succeeds and reports what the last successful
\* WriteReindexing passed, false on a fresh store; ReadFlag(name) reports
\* the value of the last successful WriteFlag of that name, fails for a
\* name never written and then leaves the caller's value alone; a write
\* of one name, or a failed write, changes nothing for the other names,
\* and no other writer changes a flag.
C24_FlagRoundTrips ==
    [][/\ FlagsOfHistory(blocktree, lastUpd)
       /\ FlagsOfHistory(blocktree', lastUpd')
       /\ op' = "WriteFlag" =>
             WriteFlagEffect(args', ret', blocktree, blocktree')
       /\ op' = "WriteReindexing" =>
             WriteReindexingEffect(args', ret', blocktree, blocktree')
       /\ op' \notin {"WriteFlag", "WriteReindexing"} =>
             /\ FlagsAsBefore(blocktree, blocktree', FlagNames)
             /\ ReadReindexing(blocktree', FALSE)
                  = ReadReindexing(blocktree, FALSE)]_vars

\* The flag 1 was written as false, the flag 2 never, and the reindexing
\* flag was set and cleared again.
C24_Witness ==
    /\ op = "WriteReindexing" /\ ret /\ ~args.fReindexing
    /\ ~ReadReindexing(blocktree, TRUE).fReindexing
    /\ ReadFlag(blocktree, 1, TRUE) = [ret |-> TRUE, fValue |-> FALSE]
    /\ ReadFlag(blocktree, 2, TRUE) = [ret |-> FALSE, fValue |-> TRUE]
    /\ <<"Flag", 2>> \notin DOMAIN lastUpd

(***************************************************************************)
(* C25: the height that GetStats reports.                                  *)
(***************************************************************************)
\* C25: a GetStats that was not cancelled has either returned failure or
\* returned success with the height of the node that mapBlockIndex holds
\* for the best block; it has not read a height through a lookup that
\* found no node.
C25_StatsOutcomeDefined ==
    (op = "GetStats" /\ ~threw) =>
        /\ ~out.crashed
        /\ ret =>
              /\ HasBlockIndex(pre.mapBlockIndex, out.stats.hashBlock)
              /\ out.stats.nHeight
                   = CBlockIndex[pre.mapBlockIndex[out.stats.hashBlock]].nHeight

====
